---------------------------- MODULE Spec2Model ----------------------------
(***************************************************************************)
(* Tender extraction and two-stage relevance classification pipeline.      *)
(*                                                                         *)
(* Text is modelled character by character: a string of the program is a   *)
(* sequence of one-character tokens.  The module is ASCII only, so each    *)
(* Cyrillic letter is written as its transliteration token ("zh", "ch",    *)
(* "ya", ...; capitals in capitals), the Latin letter a of the phrase      *)
(* list as "lat_a", the numero sign as "No", the rouble sign as "RUB" and  *)
(* the long dash as "--".  An optional value (None or a value) is a        *)
(* sequence of length 0 or 1.                                              *)
(***************************************************************************)
EXTENDS Integers, Sequences, FiniteSets, TLC

VARIABLES
  variant,            \* which collector runs: "catalog", "filtered", "template"
  days,               \* day-window of the run
  max_pages,          \* page cap, None (<<>>) or <<n>>
  with_details,       \* whether detail enrichment runs
  include_words,      \* normalised include words (filtered collector)
  exclude_words,      \* normalised exclude words (filtered collector)
  city_filter,        \* normalised city filter, None or <<text>>
  pc,                 \* position of the collector in its page loop
  page,               \* current page number
  nblocks,            \* blocks the segmenter has yielded on the current page
  tenders_by_number,  \* the dedup map, in insertion order
  page_added_any,     \* flag of the current page
  added_this_page,    \* counter of the current page
  results,            \* the list the collector returns
  requested,          \* history: page numbers requested so far, in order
  size_at_fetch,      \* history: size of the dedup map when the page was requested
  seen,               \* history: ids that occurred in a block processed so far
  late,               \* history: ids whose Tender came from a non-first occurrence
  outcomes,           \* history: the ways blocks have left the block loop so far
  detail_ok,          \* history: the ids whose detail page loaded, None without enrichment
  an_title,           \* classifier input: title
  an_description,     \* classifier input: description
  analysis,           \* classifier output, None or <<LocalAnalysis>>
  tenders,            \* rost_mce: the collected list
  local_items,        \* rost_mce: the selection sent to the external classifier
  local_found,        \* rost_mce: number of locally matched Tenders
  sent_to_gpt,        \* rost_mce: reported size of the selection
  run_pc,             \* rost_mce: position in the run
  rost_gpt_results,   \* rost_mce: gpt_results, the verdicts the classifier returned
  gpt_answers,        \* rost_mce: number of verdicts
  good_codes,         \* rost_mce: set of the codes with a positive verdict
  good_reasons,       \* rost_mce: dict code -> reason of the positive verdicts
  good_tenders,       \* rost_mce: the Tenders to notify
  matched_count,      \* rost_mce: number of Tenders to notify
  stats,              \* rost_mce: None, or the counters of the statistics message
  sent_messages,      \* history: the (Tender, reason) messages sent, in order
  OPENAI_API_KEY,     \* gpt_client: the API key of the environment, "" when unset
  items,              \* ask_gpt_about_tenders: the candidates
  gpt_idx,            \* ask_gpt_about_tenders: index of the next candidate
  gpt_results,        \* ask_gpt_about_tenders: verdicts recorded so far
  gpt_pc,             \* ask_gpt_about_tenders: "called", "loop", "returned", "raised"
  gpt_log,            \* history: what happened to each candidate, in order
  full_text,          \* _iter_blocks: the page text
  yielded,            \* _iter_blocks: None, or the list of triples it yields
  block_body,        \* field extractor: the body of one block
  fields,             \* field extractor: None, or the fields parsed from them
  config_json,        \* config_store: the content of config.json
  tmp_json,           \* config_store: the content of config.json.tmp
  _lock,              \* config_store: None, or the thread that holds the lock
  th_call,            \* per thread: None, or its current (when idle: its last) call
  th_pc,              \* per thread: its position in the call
  th_cfg,             \* per thread: cfg, the dict _read_config_raw returned
  th_ret,             \* per thread: None, or what its last call returned
  ncalls,             \* calls the threads have started so far
  awaiting,           \* tg_bot: context.user_data["awaiting"]
  nmsgs,              \* text messages handled so far
  router_txt,         \* history: None, or the text of the last message
  contended,          \* history: a call was made while another thread held the lock
  last_set            \* history: per key, None or the value of the last setter that returned

colvars == <<variant, days, max_pages, with_details, include_words, exclude_words,
             city_filter, pc, page, nblocks, tenders_by_number, page_added_any,
             added_this_page, results, requested, size_at_fetch, seen, late, outcomes,
             detail_ok>>
anvars  == <<an_title, an_description, analysis>>
repvars == <<rost_gpt_results, gpt_answers, good_codes, good_reasons, good_tenders,
             matched_count, stats, sent_messages>>
runvars == <<tenders, local_items, local_found, sent_to_gpt, run_pc, repvars>>
gptvars == <<OPENAI_API_KEY, items, gpt_idx, gpt_results, gpt_pc, gpt_log>>
segvars == <<full_text, yielded>>
exvars  == <<block_body, fields>>
thvars  == <<th_call, th_pc, th_cfg, th_ret, ncalls>>
cfvars  == <<config_json, tmp_json, _lock, thvars, awaiting, nmsgs, router_txt,
             contended, last_set>>
vars    == <<colvars, anvars, runvars, gptvars, segvars, exvars, cfvars>>

\* everything but the variables of one part
noncol == <<anvars, runvars, gptvars, segvars, exvars, cfvars>>
nonan  == <<colvars, runvars, gptvars, segvars, exvars, cfvars>>
nonrun == <<colvars, anvars, gptvars, segvars, exvars, cfvars>>
nongpt == <<colvars, anvars, runvars, segvars, exvars, cfvars>>
nonseg == <<colvars, anvars, runvars, gptvars, exvars, cfvars>>
nonex  == <<colvars, anvars, runvars, gptvars, segvars, cfvars>>
noncf  == <<colvars, anvars, runvars, gptvars, segvars, exvars>>

None == <<>>
Some(x) == <<x>>

-----------------------------------------------------------------------------
(* Characters and strings                                                  *)

Digits == {"0", "1", "2", "3", "4", "5", "6", "7", "8", "9"}

DigitVal(c) ==
  CASE c = "0" -> 0 [] c = "1" -> 1 [] c = "2" -> 2 [] c = "3" -> 3 [] c = "4" -> 4
    [] c = "5" -> 5 [] c = "6" -> 6 [] c = "7" -> 7 [] c = "8" -> 8 [] c = "9" -> 9

\* str.isspace for the characters of the model
IsSpace(c) == c \in {" ", "\n", "\t"}

LowerPairs ==
  {<<"A", "a">>, <<"B", "b">>, <<"V", "v">>, <<"G", "g">>, <<"D", "d">>, <<"E", "e">>,
   <<"YO", "yo">>, <<"ZH", "zh">>, <<"Z", "z">>, <<"I", "i">>, <<"J", "j">>, <<"K", "k">>,
   <<"L", "l">>, <<"M", "m">>, <<"N", "n">>, <<"O", "o">>, <<"P", "p">>, <<"R", "r">>,
   <<"S", "s">>, <<"T", "t">>, <<"U", "u">>, <<"F", "f">>, <<"H", "h">>, <<"C", "c">>,
   <<"CH", "ch">>, <<"SH", "sh">>, <<"SCH", "sch">>, <<"HS", "hs">>, <<"Y", "y">>,
   <<"SS", "ss">>, <<"EH", "eh">>, <<"YU", "yu">>, <<"YA", "ya">>}

\* the lower-case form of each capital letter
LowerOf == [c \in {p[1] : p \in LowerPairs} |-> (CHOOSE p \in LowerPairs : p[1] = c)[2]]

\* str.lower on one character
LowerChar(c) == IF c \in DOMAIN LowerOf THEN LowerOf[c] ELSE c

\* str.lower
Lower(s) == <<>> \o [i \in 1..Len(s) |-> LowerChar(s[i])]

\* a letter, a digit or the underscore: the regex class \w
IsWordChar(c) ==
  \/ c \in Digits
  \/ c = "_"
  \/ c = "lat_a"
  \/ \E p \in LowerPairs : c = p[1] \/ c = p[2]

StartsWith(s, prefix) ==
  Len(prefix) <= Len(s) /\ SubSeq(s, 1, Len(prefix)) = prefix

\* sub occurs in s at position i
OccursAt(sub, s, i) ==
  /\ i >= 1 /\ i + Len(sub) - 1 <= Len(s)
  /\ sub = <<>> \/ s[i] = sub[1]
  /\ SubSeq(s, i, i + Len(sub) - 1) = sub

\* the Python test: sub in s
Contains(sub, s) == \E i \in 1..(Len(s) + 1) : OccursAt(sub, s, i)

RECURSIVE LStrip(_)
LStrip(s) == IF s # <<>> /\ IsSpace(Head(s)) THEN LStrip(Tail(s)) ELSE s

RECURSIVE RStrip(_)
RStrip(s) ==
  IF s # <<>> /\ IsSpace(s[Len(s)]) THEN RStrip(SubSeq(s, 1, Len(s) - 1)) ELSE s

\* str.strip
Strip(s) == LStrip(RStrip(s))

\* position of the first line break of s, 0 when there is none
FirstBreak(s) ==
  IF \E i \in 1..Len(s) : s[i] = "\n"
  THEN CHOOSE i \in 1..Len(s) : s[i] = "\n" /\ \A j \in 1..(i - 1) : s[j] # "\n"
  ELSE 0

\* str.splitlines, for the line break "\n"
RECURSIVE SplitLines(_)
SplitLines(s) ==
  IF s = <<>> THEN <<>>
  ELSE LET i == FirstBreak(s)
       IN  IF i = 0 THEN <<s>>
           ELSE <<SubSeq(s, 1, i - 1)>> \o SplitLines(SubSeq(s, i + 1, Len(s)))

\* str.replace(old, ""), left to right, non-overlapping
RECURSIVE RemoveAll(_, _)
RemoveAll(s, old) ==
  IF s = <<>> THEN <<>>
  ELSE IF OccursAt(old, s, 1) THEN RemoveAll(SubSeq(s, Len(old) + 1, Len(s)), old)
  ELSE <<Head(s)>> \o RemoveAll(Tail(s), old)

RECURSIVE SelectNonEmpty(_)
SelectNonEmpty(ls) ==
  IF ls = <<>> THEN <<>>
  ELSE IF Head(ls) = <<>> THEN SelectNonEmpty(Tail(ls))
  ELSE <<Head(ls)>> \o SelectNonEmpty(Tail(ls))

\* the digits of s, in order: re.sub(r"[^\d]", "", s)
RECURSIVE OnlyDigits(_)
OnlyDigits(s) ==
  IF s = <<>> THEN <<>>
  ELSE IF Head(s) \in Digits THEN <<Head(s)>> \o OnlyDigits(Tail(s))
  ELSE OnlyDigits(Tail(s))

\* int(digits)
RECURSIVE IntOf(_)
IntOf(ds) ==
  IF ds = <<>> THEN 0 ELSE 10 * IntOf(SubSeq(ds, 1, Len(ds) - 1)) + DigitVal(ds[Len(ds)])

AllDigits(s) == \A i \in 1..Len(s) : s[i] \in Digits

\* Python's order on strings, here on strings of digits: s < t
RECURSIVE StrLess(_, _)
StrLess(s, t) ==
  IF t = <<>> THEN FALSE
  ELSE IF s = <<>> THEN TRUE
  ELSE IF Head(s) = Head(t) THEN StrLess(Tail(s), Tail(t))
  ELSE DigitVal(Head(s)) < DigitVal(Head(t))

-----------------------------------------------------------------------------
(* Calendar: datetime.date as its proleptic Gregorian ordinal              *)

IsLeap(y) == y % 4 = 0 /\ (y % 100 # 0 \/ y % 400 = 0)

DaysInMonth(y, m) ==
  CASE m \in {1, 3, 5, 7, 8, 10, 12} -> 31
    [] m \in {4, 6, 9, 11} -> 30
    [] m = 2 -> IF IsLeap(y) THEN 29 ELSE 28

RECURSIVE DaysBeforeMonth(_, _)
DaysBeforeMonth(y, m) ==
  IF m = 1 THEN 0 ELSE DaysBeforeMonth(y, m - 1) + DaysInMonth(y, m - 1)

\* date(y, m, d).toordinal()
ToOrdinal(y, m, d) ==
  (y - 1) * 365 + ((y - 1) \div 4) - ((y - 1) \div 100) + ((y - 1) \div 400)
    + DaysBeforeMonth(y, m) + d

ValidDate(y, m, d) == y >= 1 /\ m \in 1..12 /\ d >= 1 /\ d <= DaysInMonth(y, m)

-----------------------------------------------------------------------------
(* Field Extractor (rostender_parser.py, shared by the three collectors)   *)

\* "Okonchanie (MSK)"
END_LABEL ==
  <<"O", "k", "o", "n", "ch", "a", "n", "i", "e", " ", "(", "M", "S", "K", ")">>

\* "Nachal'naya cena"
PRICE_LABEL ==
  <<"N", "a", "ch", "a", "l", "ss", "n", "a", "ya", " ", "c", "e", "n", "a">>

\* str.split(sep) for a one-character separator
RECURSIVE SplitAt(_, _)
SplitAt(s, sep) ==
  IF \E i \in 1..Len(s) : s[i] = sep
  THEN LET i == CHOOSE i \in 1..Len(s) : s[i] = sep /\ \A j \in 1..(i - 1) : s[j] # sep
       IN  <<SubSeq(s, 1, i - 1)>> \o SplitAt(SubSeq(s, i + 1, Len(s)), sep)
  ELSE <<s>>

\* a numeric strptime field of one to maxlen digits with a value in lo..hi
NumField(s, maxlen, lo, hi) ==
  s # <<>> /\ Len(s) <= maxlen /\ AllDigits(s) /\ IntOf(s) >= lo /\ IntOf(s) <= hi

\* datetime.strptime(s, "%d.%m.%Y").date(): None stands for ValueError
StrptimeDMY(s) ==
  LET fs == SplitAt(s, ".")
  IN  IF /\ Len(fs) = 3
         /\ NumField(fs[1], 2, 1, 31)
         /\ NumField(fs[2], 2, 1, 12)
         /\ Len(fs[3]) = 4 /\ AllDigits(fs[3])
         /\ ValidDate(IntOf(fs[3]), IntOf(fs[2]), IntOf(fs[1]))
      THEN Some(ToOrdinal(IntOf(fs[3]), IntOf(fs[2]), IntOf(fs[1])))
      ELSE None

\* the "%H:%M" part of strptime, as minutes after midnight
StrptimeHM(s) ==
  LET fs == SplitAt(s, ":")
  IN  IF Len(fs) = 2 /\ NumField(fs[1], 2, 0, 23) /\ NumField(fs[2], 2, 0, 59)
      THEN Some(60 * IntOf(fs[1]) + IntOf(fs[2]))
      ELSE None

\* datetime.strptime(s, "%d.%m.%Y %H:%M"): the blank of the format matches a
\* run of white space
StrptimeDMYHM(s) ==
  IF \E i \in 1..Len(s) : IsSpace(s[i])
  THEN LET i == CHOOSE i \in 1..Len(s) :
                  IsSpace(s[i]) /\ \A j \in 1..(i - 1) : ~IsSpace(s[j])
           d == StrptimeDMY(SubSeq(s, 1, i - 1))
           t == StrptimeHM(LStrip(SubSeq(s, i, Len(s))))
       IN  IF d # None /\ t # None THEN Some(<<d[1], t[1]>>) ELSE None
  ELSE None

\* datetime.strptime(date_str, "%d.%m.%y").date() on the marker's dd.mm.yy:
\* a two-digit year below 69 is 20yy, otherwise 19yy
StrptimePublished(date_str) ==
  LET fs == SplitAt(date_str, ".")
  IN  IF /\ Len(fs) = 3
         /\ NumField(fs[1], 2, 1, 31)
         /\ NumField(fs[2], 2, 1, 12)
         /\ Len(fs[3]) = 2 /\ AllDigits(fs[3])
      THEN LET yy == IntOf(fs[3])
               y  == IF yy < 69 THEN 2000 + yy ELSE 1900 + yy
           IN  IF ValidDate(y, IntOf(fs[2]), IntOf(fs[1]))
               THEN Some(ToOrdinal(y, IntOf(fs[2]), IntOf(fs[1])))
               ELSE None
      ELSE None

_cleanup_lines(body) ==
  LET ls == SplitLines(body)
  IN  SelectNonEmpty([i \in 1..Len(ls) |-> Strip(ls[i])])

\* the first index of a loop that is in S, 0 when there is none
FirstIndex(S) == IF S = {} THEN 0 ELSE CHOOSE i \in S : \A j \in S : i <= j

\* _parse_end_datetime reading the label line only
_parse_end_datetime_SameLine(lines) ==
  LET IsLabel(i) == StartsWith(lines[i], END_LABEL)
      i == FirstIndex({n \in 1..Len(lines) : IsLabel(n)})
  IN  IF i = 0 THEN None
      ELSE LET part == Strip(RemoveAll(lines[i], END_LABEL))
           IN  IF part = <<>> THEN None
               ELSE IF Contains(<<" ">>, part) THEN StrptimeDMYHM(part)
               ELSE LET d == StrptimeDMY(part)
                    IN  IF d = None THEN None ELSE Some(<<d[1], 0>>)

_parse_end_datetime(lines) ==
  LET IsLabel(i) == StartsWith(lines[i], END_LABEL)
      i == FirstIndex({n \in 1..Len(lines) : IsLabel(n)})
  IN  IF i = 0 THEN None
      ELSE LET onLine == Strip(RemoveAll(lines[i], END_LABEL))
               part   == IF onLine = <<>> /\ i + 1 <= Len(lines)
                         THEN Strip(lines[i + 1]) ELSE onLine
           IN  IF part = <<>> THEN None
               ELSE IF Contains(<<" ">>, part) THEN StrptimeDMYHM(part)
               ELSE LET d == StrptimeDMY(part)
                    IN  IF d = None THEN None ELSE Some(<<d[1], 0>>)

\* _parse_city_region stepping over the line after a bare label
_parse_city_region_SkipValue(lines) ==
  LET IsLabel(i) == StartsWith(lines[i], END_LABEL) /\ i + 2 <= Len(lines)
      i == FirstIndex({n \in 1..Len(lines) : IsLabel(n)})
      k == IF i # 0 /\ lines[i] = END_LABEL THEN i + 1 ELSE i
  IN  IF i = 0 \/ k + 2 > Len(lines) THEN [city |-> None, region |-> None]
      ELSE [city |-> Some(lines[k + 1]), region |-> Some(lines[k + 2])]

_parse_city_region(lines) ==
  LET IsLabel(i) == StartsWith(lines[i], END_LABEL) /\ i + 2 <= Len(lines)
      i == FirstIndex({n \in 1..Len(lines) : IsLabel(n)})
  IN  IF i = 0 THEN [city |-> None, region |-> None]
      ELSE [city |-> Some(lines[i + 1]), region |-> Some(lines[i + 2])]

\* _parse_price without the test for the currency marker
_parse_price_NoMarker(lines) ==
  LET IsLabel(i) == lines[i] = PRICE_LABEL /\ i + 1 <= Len(lines)
      i == FirstIndex({n \in 1..Len(lines) : IsLabel(n)})
  IN  IF i = 0 THEN [price |-> None, price_raw |-> None]
      ELSE LET raw    == lines[i + 1]
               digits == OnlyDigits(raw)
           IN  IF digits # <<>>
               THEN [price |-> Some(IntOf(digits)), price_raw |-> Some(raw)]
               ELSE [price |-> None, price_raw |-> Some(raw)]

_parse_price(lines) ==
  LET IsLabel(i) == lines[i] = PRICE_LABEL /\ i + 1 <= Len(lines)
      i == FirstIndex({n \in 1..Len(lines) : IsLabel(n)})
  IN  IF i = 0 THEN [price |-> None, price_raw |-> None]
      ELSE LET raw    == lines[i + 1]
               digits == OnlyDigits(raw)
           IN  IF Contains(<<"RUB">>, raw) /\ digits # <<>>
               THEN [price |-> Some(IntOf(digits)), price_raw |-> Some(raw)]
               ELSE [price |-> None, price_raw |-> Some(raw)]

\* the Tender built from one accepted block (lines is never empty here)
Tender(source, number, d, body, lines) ==
  LET geo == _parse_city_region(lines)
      pr  == _parse_price(lines)
  IN  [source       |-> source,
       number       |-> number,
       published    |-> d,
       title        |-> lines[1],
       end_datetime |-> _parse_end_datetime(lines),
       city         |-> geo.city,
       region       |-> geo.region,
       price        |-> pr.price,
       price_raw    |-> pr.price_raw,
       url          |-> <<"https://rostender.info/tender?search=", number>>,
       raw_block    |-> Strip(body),
       detail_text  |-> None]

-----------------------------------------------------------------------------
(* The dedup map: a Python dict, kept as the sequence of its values in     *)
(* insertion order                                                         *)

HasKey(tbn, number) == \E i \in 1..Len(tbn) : tbn[i].number = number

\* tenders_by_number[number] = tender
DictSet(tbn, number, tender) ==
  IF HasKey(tbn, number)
  THEN [i \in 1..Len(tbn) |-> IF tbn[i].number = number THEN tender ELSE tbn[i]]
  ELSE Append(tbn, tender)

Keys(tbn) == {tbn[i].number : i \in 1..Len(tbn)}

-----------------------------------------------------------------------------
(* Collector: one iteration of the block loop, per collector               *)

\* "priyom zayavok" and "priem zayavok", the stage phrases
STAGE_YO == <<"p", "r", "i", "yo", "m", " ", "z", "a", "ya", "v", "o", "k">>
STAGE_E  == <<"p", "r", "i", "e", "m", " ", "z", "a", "ya", "v", "o", "k">>

OrEmpty(opt) == IF opt = None THEN <<>> ELSE opt[1]

_matches_basic_filters(title, body, city, region, include, exclude, cfilter) ==
  LET text == Lower(title \o <<"\n">> \o body)
      geo_text == Lower(OrEmpty(city)) \o <<" ">> \o Lower(OrEmpty(region))
                    \o <<" ">> \o text
  IN  /\ Contains(STAGE_YO, text) \/ Contains(STAGE_E, text)
      /\ include # <<>> => \E i \in 1..Len(include) : Contains(include[i], text)
      /\ exclude # <<>> => ~\E i \in 1..Len(exclude) : Contains(exclude[i], text)
      /\ cfilter # None => Contains(cfilter[1], geo_text)

\* [w.strip().lower() for w in (words or []) if w.strip()]
NormWords(words) ==
  SelectNonEmpty([i \in 1..Len(words) |-> Lower(Strip(words[i]))])

\* city_filter.strip().lower() if city_filter and city_filter.strip() else None
NormCity(city) ==
  IF city # None /\ Strip(city[1]) # <<>> THEN Some(Lower(Strip(city[1]))) ELSE None

\* "continue": the block leaves the map as it is; why names the test that skipped it
Skip(tbn, why) == [tbn |-> tbn, added |-> FALSE, why |-> why]

\* CatalogBlock without the test "if number in tenders_by_number: continue"
CatalogBlock_NoDedup(tbn, b, min_date) ==
  LET d == StrptimePublished(b.date)
      lines == _cleanup_lines(b.body)
  IN  IF d = None THEN Skip(tbn, "bad_date")
      ELSE IF d[1] < min_date THEN Skip(tbn, "old")
      ELSE IF lines = <<>> THEN Skip(tbn, "empty")
      ELSE [tbn   |-> DictSet(tbn, b.number,
                              Tender("rostender", b.number, d[1], b.body, lines)),
            added |-> TRUE, why |-> "added"]

\* CatalogBlock taking today for a publish date it cannot read
CatalogBlock_DefaultDate(tbn, b, min_date) ==
  LET p == StrptimePublished(b.date)
      d == IF p = None THEN Some(min_date) ELSE p
      lines == _cleanup_lines(b.body)
  IN  IF d[1] < min_date THEN Skip(tbn, "old")
      ELSE IF HasKey(tbn, b.number) THEN Skip(tbn, "dup")
      ELSE IF lines = <<>> THEN Skip(tbn, "empty")
      ELSE [tbn   |-> DictSet(tbn, b.number,
                              Tender("rostender", b.number, d[1], b.body, lines)),
            added |-> TRUE, why |-> "added"]

\* fetch_rostender_tenders: the body of "for number, date_str, body in _iter_blocks"
CatalogBlock(tbn, b, min_date) ==
  LET d == StrptimePublished(b.date)
      lines == _cleanup_lines(b.body)
  IN  IF d = None THEN Skip(tbn, "bad_date")
      ELSE IF d[1] < min_date THEN Skip(tbn, "old")
      ELSE IF HasKey(tbn, b.number) THEN Skip(tbn, "dup")
      ELSE IF lines = <<>> THEN Skip(tbn, "empty")
      ELSE [tbn   |-> DictSet(tbn, b.number,
                              Tender("rostender", b.number, d[1], b.body, lines)),
            added |-> TRUE, why |-> "added"]

\* fetch_rostender_tenders_filtered: the body of its block loop
FilteredBlock(tbn, b, min_date, include, exclude, cfilter) ==
  LET d == StrptimePublished(b.date)
      lines == _cleanup_lines(b.body)
      geo == _parse_city_region(lines)
  IN  IF d = None THEN Skip(tbn, "bad_date")
      ELSE IF d[1] < min_date THEN Skip(tbn, "old")
      ELSE IF HasKey(tbn, b.number) THEN Skip(tbn, "dup")
      ELSE IF lines = <<>> THEN Skip(tbn, "empty")
      ELSE IF ~_matches_basic_filters(lines[1], b.body, geo.city, geo.region,
                                      include, exclude, cfilter)
           THEN Skip(tbn, "filtered")
      ELSE [tbn   |-> DictSet(tbn, b.number,
                              Tender("rostender-filter", b.number, d[1], b.body, lines)),
            added |-> TRUE, why |-> "added"]

\* TemplateBlock without the test "if d < min_date: continue"
TemplateBlock_NoCutoff(tbn, b, min_date) ==
  LET d == StrptimePublished(b.date)
      lines == _cleanup_lines(b.body)
  IN  IF d = None THEN Skip(tbn, "bad_date")
      ELSE IF HasKey(tbn, b.number) THEN Skip(tbn, "dup")
      ELSE IF lines = <<>> THEN Skip(tbn, "empty")
      ELSE [tbn   |-> DictSet(tbn, b.number,
                              Tender("rostender", b.number, d[1], b.body, lines)),
            added |-> TRUE, why |-> "added"]

\* _parse_page_html: the body of its block loop
TemplateBlock(tbn, b, min_date) ==
  LET d == StrptimePublished(b.date)
      lines == _cleanup_lines(b.body)
  IN  IF d = None THEN Skip(tbn, "bad_date")
      ELSE IF d[1] < min_date THEN Skip(tbn, "old")
      ELSE IF HasKey(tbn, b.number) THEN Skip(tbn, "dup")
      ELSE IF lines = <<>> THEN Skip(tbn, "empty")
      ELSE [tbn   |-> DictSet(tbn, b.number,
                              Tender("rostender", b.number, d[1], b.body, lines)),
            added |-> TRUE, why |-> "added"]

\* the sort key (t.published, t.number): a < b
KeyLess(a, b) ==
  \/ a.published < b.published
  \/ a.published = b.published /\ StrLess(a.number, b.number)

\* x placed after every element whose key is not below its own
InsertDesc(sorted, x) ==
  LET Smaller(i) == KeyLess(sorted[i], x)
      k == FirstIndex({n \in 1..Len(sorted) : Smaller(n)})
  IN  IF k = 0 THEN Append(sorted, x)
      ELSE SubSeq(sorted, 1, k - 1) \o <<x>> \o SubSeq(sorted, k, Len(sorted))

\* the sort without reverse=True: ascending
RECURSIVE SortDesc_Ascending(_)
SortDesc_Ascending(s) ==
  IF s = <<>> THEN <<>>
  ELSE LET rest == SortDesc_Ascending(SubSeq(s, 1, Len(s) - 1))
           x == s[Len(s)]
           Larger(i) == KeyLess(x, rest[i])
           k == FirstIndex({n \in 1..Len(rest) : Larger(n)})
       IN  IF k = 0 THEN Append(rest, x)
           ELSE SubSeq(rest, 1, k - 1) \o <<x>> \o SubSeq(rest, k, Len(rest))

\* results.sort(key=lambda t: (t.published, t.number), reverse=True): stable
RECURSIVE SortDesc(_)
SortDesc(s) ==
  IF s = <<>> THEN <<>>
  ELSE InsertDesc(SortDesc(SubSeq(s, 1, Len(s) - 1)), s[Len(s)])

\* "detal'" : the text of a detail page
DETAIL_PAGE == <<"d", "e", "t", "a", "l", "ss">>

\* _fill_details dropping the Tenders whose detail page does not load
_fill_details_DropFailed(ts, ok) ==
  LET kept == SelectSeq(ts, LAMBDA t : t.number \in ok)
  IN  [i \in 1..Len(kept) |-> [kept[i] EXCEPT !.detail_text = Some(DETAIL_PAGE)]]

\* _fill_details: the Tenders whose detail page loads (ok) get detail_text
_fill_details(ts, ok) ==
  [i \in 1..Len(ts) |->
     IF ts[i].number \in ok THEN [ts[i] EXCEPT !.detail_text = Some(DETAIL_PAGE)]
     ELSE ts[i]]

-----------------------------------------------------------------------------
(* Collector: inputs of the model                                          *)

\* blocks one page may hold
MaxBlocks == 2

\* the highest page number the model lets the catalog collector request
MaxPageNo == 3

\* date.today() of the run: 2 November 2026
TODAY == ToOrdinal(2026, 11, 2)

\* tender ids of the source; as strings "9" is above "10"
Numbers == {<<"9">>, <<"1", "0">>}

\* 02.11.26, 31.10.26, 30.09.26 and the unparseable 99.99.25
DateStrs ==
  {<<"0", "2", ".", "1", "1", ".", "2", "6">>,
   <<"3", "1", ".", "1", "0", ".", "2", "6">>,
   <<"3", "0", ".", "0", "9", ".", "2", "6">>,
   <<"9", "9", ".", "9", "9", ".", "2", "5">>}

\* a complete block: title, deadline on the label line, city, region, price, stage
BODY_FULL ==
  <<"\n", "D", "a", "t", "ch", "i", "k", "\n",
    "O", "k", "o", "n", "ch", "a", "n", "i", "e", " ", "(", "M", "S", "K", ")", " ",
    "1", "0", ".", "0", "1", ".", "2", "0", "2", "6", " ", "1", "4", ":", "0", "0", "\n",
    "g", ".", " ", "L", "o", "b", "n", "ya", "\n", "M", "O", "\n",
    "N", "a", "ch", "a", "l", "ss", "n", "a", "ya", " ", "c", "e", "n", "a", "\n",
    "5", " ", "0", "0", "0", " ", "RUB", "\n",
    "P", "r", "i", "yo", "m", " ", "z", "a", "ya", "v", "o", "k", "\n">>

\* a title and the stage phrase only
BODY_SHORT ==
  <<"\n", "M", "e", "b", "e", "l", "ss", "\n",
    "P", "r", "i", "e", "m", " ", "z", "a", "ya", "v", "o", "k">>

\* a title without the stage phrase
BODY_NOSTAGE == <<"\n", "U", "z", "e", "l", " ", "u", "ch", "e", "t", "a">>

\* no non-blank line
BODY_BLANK == <<"\n", " ", "\n">>

Bodies == {BODY_FULL, BODY_SHORT, BODY_NOSTAGE, BODY_BLANK}

\* what _iter_blocks can yield for one marker
Blocks == [number : Numbers, date : DateStrs, body : Bodies]

W_DATCHIK == <<" ", "D", "a", "t", "ch", "i", "k", " ">>
W_MEBEL   == <<"m", "e", "b", "e", "l", "ss">>
W_LOBNYA  == <<"L", "o", "b", "n", "ya">>

\* the filter arguments rost_mce may pass: include words, exclude words, city
NO_FILTER == [include |-> <<>>, exclude |-> <<>>, city |-> None]
MCE_FILTER == [include |-> <<W_DATCHIK>>, exclude |-> <<W_MEBEL>>, city |-> Some(W_LOBNYA)]
\* a city setting of two words, "Lobnya MO"
W_LOBNYA_MO == <<"L", "o", "b", "n", "ya", " ", "M", "O">>
CITY_FILTER == [include |-> <<>>, exclude |-> <<>>, city |-> Some(W_LOBNYA_MO)]

\* the calls of the model: collector, days, max_pages, with_details and, for the
\* filtered collector, the include words, exclude words and city rost_mce passes
RunArgs ==
  {[variant |-> "catalog",  days |-> 1, max_pages |-> None,  with_details |-> FALSE, filter |-> NO_FILTER],
   [variant |-> "catalog",  days |-> 3, max_pages |-> None,  with_details |-> TRUE,  filter |-> NO_FILTER],
   [variant |-> "catalog",  days |-> 3, max_pages |-> <<2>>, with_details |-> FALSE, filter |-> NO_FILTER],
   [variant |-> "filtered", days |-> 3, max_pages |-> <<2>>, with_details |-> TRUE,  filter |-> NO_FILTER],
   [variant |-> "filtered", days |-> 3, max_pages |-> <<2>>, with_details |-> TRUE,  filter |-> MCE_FILTER],
   [variant |-> "filtered", days |-> 1, max_pages |-> <<1>>, with_details |-> FALSE, filter |-> NO_FILTER],
   [variant |-> "filtered", days |-> 3, max_pages |-> <<1>>, with_details |-> FALSE, filter |-> CITY_FILTER],
   [variant |-> "template", days |-> 3, max_pages |-> <<2>>, with_details |-> FALSE, filter |-> NO_FILTER],
   [variant |-> "template", days |-> 1, max_pages |-> <<1>>, with_details |-> FALSE, filter |-> NO_FILTER]}

min_date == TODAY - days

cfgvars == <<variant, days, max_pages, with_details, include_words, exclude_words,
             city_filter>>
histvars == <<requested, size_at_fetch, seen, late, outcomes>>
ClassifierIdle ==
  an_title = <<>> /\ an_description = <<>> /\ analysis = None

RunIdle ==
  /\ tenders = <<>> /\ local_items = <<>> /\ local_found = 0 /\ sent_to_gpt = 0
  /\ run_pc = "idle"
  /\ rost_gpt_results = <<>> /\ gpt_answers = 0 /\ good_codes = {}
  /\ good_reasons = <<>> /\ good_tenders = <<>> /\ matched_count = 0
  /\ stats = None /\ sent_messages = <<>>

GptIdle ==
  /\ OPENAI_API_KEY = <<>>
  /\ items = <<>> /\ gpt_idx = 0 /\ gpt_results = <<>> /\ gpt_pc = "idle"
  /\ gpt_log = <<>>

CollectorIdle ==
  /\ variant = "none" /\ days = 0 /\ max_pages = None /\ with_details = FALSE
  /\ include_words = <<>> /\ exclude_words = <<>> /\ city_filter = None
  /\ pc = "idle" /\ page = 0 /\ nblocks = 0 /\ tenders_by_number = <<>>
  /\ page_added_any = FALSE /\ added_this_page = 0 /\ results = <<>>
  /\ requested = <<>> /\ size_at_fetch = 0 /\ seen = {} /\ late = {}
  /\ outcomes = {} /\ detail_ok = None

SegmenterIdle == full_text = <<>> /\ yielded = None

ExtractorIdle == block_body = <<>> /\ fields = None

ConfigIdle ==
  /\ config_json = [kind |-> "absent"] /\ tmp_json = [kind |-> "absent"]
  /\ _lock = None
  /\ th_call = <<>> /\ th_pc = <<>> /\ th_cfg = <<>> /\ th_ret = <<>> /\ ncalls = 0
  /\ awaiting = None /\ nmsgs = 0 /\ router_txt = None /\ contended = FALSE
  /\ last_set = <<>>

\* the parts that are not called in a run of the part named
IdleBut(part) ==
  /\ part # "collector" => CollectorIdle
  /\ part # "classifier" => ClassifierIdle
  /\ part # "selector" => RunIdle
  /\ part # "gpt" => GptIdle
  /\ part # "segmenter" => SegmenterIdle
  /\ part # "extractor" => ExtractorIdle
  /\ part # "config" => ConfigIdle

-----------------------------------------------------------------------------
(* Collector: the three page loops                                         *)

CollectorInit ==
  /\ \E a \in RunArgs :
       /\ variant = a.variant
       /\ days = a.days
       /\ max_pages = a.max_pages
       /\ with_details = a.with_details
       /\ include_words = NormWords(a.filter.include)
       /\ exclude_words = NormWords(a.filter.exclude)
       /\ city_filter = NormCity(a.filter.city)
  /\ pc = "top" /\ page = 1 /\ nblocks = 0
  /\ tenders_by_number = <<>>
  /\ page_added_any = FALSE /\ added_this_page = 0
  /\ results = <<>>
  /\ requested = <<>> /\ size_at_fetch = 0 /\ seen = {} /\ late = {}
  /\ outcomes = {} /\ detail_ok = None
  /\ IdleBut("collector")

\* the page is requested and its text handed to _iter_blocks
FetchPage ==
  /\ requested' = Append(requested, page)
  /\ size_at_fetch' = Len(tenders_by_number)
  /\ nblocks' = 0
  /\ page_added_any' = FALSE
  /\ added_this_page' = 0
  /\ pc' = "blocks"
  /\ UNCHANGED <<noncol, cfgvars, page, tenders_by_number, results, seen, late, outcomes, detail_ok>>

Break ==
  /\ pc' = "collected"
  /\ UNCHANGED <<noncol, cfgvars, page, nblocks, tenders_by_number, page_added_any,
                 added_this_page, results, histvars, detail_ok>>

\* NextPage stepping over a page number
NextPage_Skip ==
  /\ page' = page + 2
  /\ pc' = "top"
  /\ UNCHANGED <<noncol, cfgvars, nblocks, tenders_by_number, page_added_any,
                 added_this_page, results, histvars, detail_ok>>

\* "page += 1", the next value of the for loop
NextPage ==
  /\ page' = page + 1
  /\ pc' = "top"
  /\ UNCHANGED <<noncol, cfgvars, nblocks, tenders_by_number, page_added_any,
                 added_this_page, results, histvars, detail_ok>>

\* fetch_rostender_tenders: "while True", the cap test, then _get_html
CatalogTop ==
  /\ variant = "catalog" /\ pc = "top"
  /\ IF max_pages # None /\ page > max_pages[1] THEN Break
     ELSE page <= MaxPageNo /\ FetchPage

\* "for page in range(1, max_pages + 1)", then _get_search_html
FilteredTop ==
  /\ variant = "filtered" /\ pc = "top"
  /\ IF page > max_pages[1] THEN Break ELSE FetchPage

\* "for page_num in range(1, max_pages + 1)", then page.goto and page.content
TemplateTop ==
  /\ variant = "template" /\ pc = "top"
  /\ IF page > max_pages[1] THEN Break ELSE FetchPage

\* the request fails (raise_for_status, a timeout): the collector raises
FetchFails ==
  /\ pc = "top"
  /\ max_pages # None => page <= max_pages[1]
  /\ pc' = "raised"
  /\ UNCHANGED <<noncol, cfgvars, page, nblocks, tenders_by_number, page_added_any,
                 added_this_page, results, histvars, detail_ok>>

\* the effect of one block on the loop variables and on the history
BlockDone(b, r) ==
  /\ tenders_by_number' = r.tbn
  /\ page_added_any' = (IF r.added /\ variant # "template" THEN TRUE ELSE page_added_any)
  /\ added_this_page' = (IF r.added THEN added_this_page + 1 ELSE added_this_page)
  /\ nblocks' = nblocks + 1
  /\ seen' = seen \cup {b.number}
  /\ late' = (IF r.added /\ b.number \in seen THEN late \cup {b.number} ELSE late)
  /\ outcomes' = outcomes \cup {r.why}
  /\ UNCHANGED <<noncol, cfgvars, pc, page, results, requested, size_at_fetch, detail_ok>>

CatalogNextBlock ==
  /\ variant = "catalog" /\ pc = "blocks" /\ nblocks < MaxBlocks
  /\ \E b \in Blocks : BlockDone(b, CatalogBlock(tenders_by_number, b, min_date))

FilteredNextBlock ==
  /\ variant = "filtered" /\ pc = "blocks" /\ nblocks < MaxBlocks
  /\ \E b \in Blocks :
       BlockDone(b, FilteredBlock(tenders_by_number, b, min_date,
                                  include_words, exclude_words, city_filter))

TemplateNextBlock ==
  /\ variant = "template" /\ pc = "blocks" /\ nblocks < MaxBlocks
  /\ \E b \in Blocks : BlockDone(b, TemplateBlock(tenders_by_number, b, min_date))

\* CatalogEndPage without the break: the next page is always requested
CatalogEndPage_NoBreak ==
  /\ variant = "catalog" /\ pc = "blocks"
  /\ NextPage

\* fetch_rostender_tenders: "if not page_added_any: break", else "page += 1"
CatalogEndPage ==
  /\ variant = "catalog" /\ pc = "blocks"
  /\ IF ~page_added_any THEN Break ELSE NextPage

\* fetch_rostender_tenders_filtered: "if not page_added_any: break"
FilteredEndPage ==
  /\ variant = "filtered" /\ pc = "blocks"
  /\ IF ~page_added_any THEN Break ELSE NextPage

\* fetch_rostender_tenders_from_template: "if added == 0: break"
TemplateEndPage ==
  /\ variant = "template" /\ pc = "blocks"
  /\ IF added_this_page = 0 THEN Break ELSE NextPage

\* list(values()), the optional _fill_details, the sort, return
Return(ts) ==
  /\ results' = SortDesc(ts)
  /\ pc' = "done"
  /\ UNCHANGED <<noncol, cfgvars, page, nblocks, tenders_by_number, page_added_any,
                 added_this_page, histvars>>

CatalogFinish ==
  /\ variant = "catalog" /\ pc = "collected"
  /\ IF with_details /\ tenders_by_number # <<>>
     THEN \E ok \in SUBSET Keys(tenders_by_number) :
            Return(_fill_details(tenders_by_number, ok)) /\ detail_ok' = Some(ok)
     ELSE Return(tenders_by_number) /\ UNCHANGED detail_ok

FilteredFinish ==
  /\ variant = "filtered" /\ pc = "collected"
  /\ IF with_details /\ tenders_by_number # <<>>
     THEN \E ok \in SUBSET Keys(tenders_by_number) :
            Return(_fill_details(tenders_by_number, ok)) /\ detail_ok' = Some(ok)
     ELSE Return(tenders_by_number) /\ UNCHANGED detail_ok

TemplateFinish ==
  /\ variant = "template" /\ pc = "collected"
  /\ Return(tenders_by_number) /\ UNCHANGED detail_ok

CollectorNext ==
  \/ CatalogTop \/ FilteredTop \/ TemplateTop
  \/ FetchFails
  \/ CatalogNextBlock \/ FilteredNextBlock \/ TemplateNextBlock
  \/ CatalogEndPage \/ FilteredEndPage \/ TemplateEndPage
  \/ CatalogFinish \/ FilteredFinish \/ TemplateFinish

Spec == CollectorInit /\ [][CollectorNext]_vars

\* the collectors, with the page loop of fetch_rostender_tenders running on:
\* the interpreter goes on from the top of the loop (a request returns or
\* raises within its timeout) and from the block loop, which ends with the
\* page's blocks, to the test at the end of the page
SpecTermination == Spec /\ WF_vars(CatalogTop) /\ WF_vars(CatalogEndPage)

-----------------------------------------------------------------------------
(* Block segmenter: _iter_blocks                                           *)

\* "Tender", the word that opens a marker, and "ot"
TENDER_WORD == <<"T", "e", "n", "d", "e", "r">>
OT_WORD == <<"o", "t">>

\* the index after the longest run of white space that starts at i: \s*
SkipSpaces(s, i) ==
  LET stops == {j \in i..Len(s) : ~IsSpace(s[j])}
  IN  IF stops = {} THEN Len(s) + 1 ELSE CHOOSE j \in stops : \A k \in stops : j <= k

\* the index after the longest run of digits that starts at i: \d*
SkipDigits(s, i) ==
  LET stops == {j \in i..Len(s) : s[j] \notin Digits}
  IN  IF stops = {} THEN Len(s) + 1 ELSE CHOOSE j \in stops : \A k \in stops : j <= k

\* Tender\s+No(\d+)\s+ot matched at i: the number and the index after the match
MarkerHead(s, i) ==
  LET a == i + Len(TENDER_WORD)
      b == SkipSpaces(s, a)
      c == SkipDigits(s, b + 1)
      d == SkipSpaces(s, c)
  IN  IF /\ OccursAt(TENDER_WORD, s, i)
         /\ b > a /\ b <= Len(s) /\ s[b] = "No"
         /\ c > b + 1
         /\ d > c /\ OccursAt(OT_WORD, s, d)
      THEN [ok |-> TRUE, number |-> SubSeq(s, b + 1, c - 1), end |-> d + Len(OT_WORD)]
      ELSE [ok |-> FALSE, number |-> <<>>, end |-> 0]

\* \d{2}\.\d{2}\.\d{2} matched at i
DateAt(s, i) ==
  /\ i + 7 <= Len(s)
  /\ \A k \in {0, 1, 3, 4, 6, 7} : s[i + k] \in Digits
  /\ s[i + 2] = "." /\ s[i + 5] = "."

\* the marker Tender\s+No(\d+)\s+ot\s+(\d{2}\.\d{2}\.\d{2}) matched at i
MarkerAt(s, i) ==
  LET h == MarkerHead(s, i)
      e == SkipSpaces(s, h.end)
  IN  IF h.ok /\ e > h.end /\ DateAt(s, e)
      THEN [ok |-> TRUE, number |-> h.number, date |-> SubSeq(s, e, e + 7), end |-> e + 8]
      ELSE [ok |-> FALSE, number |-> <<>>, date |-> <<>>, end |-> 0]

\* finditer from pos on: the leftmost marker, its body up to the next marker
\* head or the end of the text, then on from the end of the body
RECURSIVE IterBlocksFrom(_, _)
IterBlocksFrom(s, pos) ==
  LET starts == {i \in pos..Len(s) : MarkerAt(s, i).ok}
  IN  IF starts = {} THEN <<>>
      ELSE LET i == CHOOSE x \in starts : \A y \in starts : x <= y
               m == MarkerAt(s, i)
               heads == {j \in m.end..Len(s) : MarkerHead(s, j).ok}
               j == IF heads = {} THEN Len(s) + 1
                    ELSE CHOOSE x \in heads : \A y \in heads : x <= y
           IN  <<[number |-> m.number, date |-> m.date, body |-> SubSeq(s, m.end, j - 1)]>>
                 \o IterBlocksFrom(s, j)

\* a greedy body: the first marker swallows the rest of the text
_iter_blocks_Greedy(text) ==
  LET starts == {i \in 1..Len(text) : MarkerAt(text, i).ok}
  IN  IF starts = {} THEN <<>>
      ELSE LET i == CHOOSE x \in starts : \A y \in starts : x <= y
               m == MarkerAt(text, i)
           IN  <<[number |-> m.number, date |-> m.date,
                  body |-> SubSeq(text, m.end, Len(text))]>>

_iter_blocks(text) == IterBlocksFrom(text, 1)

-----------------------------------------------------------------------------
(* Block segmenter: inputs of the model                                    *)

\* pieces one page text is made of
MaxPieces == 4

\* "Tender No9 ot 02.11.26"
PIECE_MARKER ==
  <<"T", "e", "n", "d", "e", "r", " ", "No", "9", " ", "o", "t", " ",
    "0", "2", ".", "1", "1", ".", "2", "6">>

\* the marker of tender 10 with other white space
PIECE_MARKER_WS ==
  <<"T", "e", "n", "d", "e", "r", "\n", "No", "1", "0", " ", " ", "o", "t", "\t",
    "3", "1", ".", "1", "0", ".", "2", "6">>

\* "Tender No5 ot vchera": a marker head without a date
PIECE_HEAD_ONLY ==
  <<"T", "e", "n", "d", "e", "r", " ", "No", "5", " ", "o", "t", " ",
    "v", "ch", "e", "r", "a">>

\* "Tender 7 ot 02.11.26": no numero sign
PIECE_NO_SIGN ==
  <<"T", "e", "n", "d", "e", "r", " ", "7", " ", "o", "t", " ",
    "0", "2", ".", "1", "1", ".", "2", "6">>

\* body text, a run of digits, a blank
PIECE_BODY == <<"\n", "D", "a", "t", "ch", "i", "k", "\n">>
PIECE_DIGITS == <<"2", "6">>
PIECE_BLANK == <<" ">>

Pieces ==
  {PIECE_MARKER, PIECE_MARKER_WS, PIECE_HEAD_ONLY, PIECE_NO_SIGN, PIECE_BODY,
   PIECE_DIGITS, PIECE_BLANK}

RECURSIVE Concat(_)
Concat(ps) == IF ps = <<>> THEN <<>> ELSE Head(ps) \o Concat(Tail(ps))

\* the page texts of at most maxlen pieces
PageTexts(maxlen) == {Concat(ps) : ps \in UNION {[1..n -> Pieces] : n \in 0..maxlen}}

SegmenterInit ==
  /\ full_text \in PageTexts(MaxPieces)
  /\ yielded = None
  /\ IdleBut("segmenter")

\* list(_iter_blocks(full_text))
IterBlocks ==
  /\ yielded = None
  /\ yielded' = Some(_iter_blocks(full_text))
  /\ UNCHANGED <<full_text, nonseg>>

SegmenterNext == IterBlocks

SpecSegmenter == SegmenterInit /\ [][SegmenterNext]_vars

-----------------------------------------------------------------------------
(* Local Relevance Classifier (mce_filter.py)                              *)

TOP_DIRECTIONS ==
  {
   <<"u", "z", "e", "l", " ", "u", "ch", "e", "t", "a">>,
   <<"u", "z", "e", "l", " ", "u", "ch", "yo", "t", "a">>,
   <<"u", "z", "e", "l", " ", "u", "ch", "e", "t", "a", " ", "g", "a", "z", "a">>,
   <<"u", "z", "e", "l", " ", "u", "ch", "yo", "t", "a", " ", "g", "a", "z", "a">>,
   <<"u", "z", "e", "l", " ", "u", "ch", "e", "t", "a", " ", "n", "e", "f", "t", "i">>,
   <<"u", "z", "e", "l", " ", "u", "ch", "yo", "t", "a", " ", "n", "e", "f", "t", "i">>,
   <<"u", "z", "e", "l", " ", "u", "ch", "e", "t", "a", " ", "k", "o", "n", "d", "e",
     "n", "s", "a", "t", "a">>,
   <<"u", "z", "e", "l", " ", "u", "ch", "yo", "t", "a", " ", "k", "o", "n", "d", "e",
     "n", "s", "a", "t", "a">>,
   <<"u", "z", "e", "l", " ", "i", "z", "m", "e", "r", "e", "n", "i", "ya", " ", "r",
     "a", "s", "h", "o", "d", "a", " ", "g", "a", "z", "a">>,
   <<"u", "z", "e", "l", " ", "i", "z", "m", "e", "r", "e", "n", "i", "ya", " ", "r",
     "a", "s", "h", "o", "d", "a", " ", "zh", "i", "d", "k", "o", "s", "t", "i">>,
   <<"u", "z", "e", "l", " ", "u", "ch", "e", "t", "a", " ", "t", "e", "p", "l", "o",
     "v", "o", "j", " ", "eh", "n", "e", "r", "g", "i", "i">>,
   <<"u", "z", "e", "l", " ", "u", "ch", "yo", "t", "a", " ", "t", "e", "p", "l", "o",
     "v", "o", "j", " ", "eh", "n", "e", "r", "g", "i", "i">>,
   <<"s", "i", "k", "g">>,
   <<"s", "i", "k", "n">>,
   <<"s", "i", "k", "v">>,
   <<"s", "i", "k", "n", "s">>,
   <<"s", "i", "s", "t", "e", "m", "y", " ", "i", "z", "m", "e", "r", "e", "n", "i",
     "ya", " ", "k", "o", "l", "i", "ch", "e", "s", "t", "v", "a", " ", "g", "a", "z",
     "a">>,
   <<"s", "i", "s", "t", "e", "m", "a", " ", "i", "z", "m", "e", "r", "e", "n", "i",
     "ya", " ", "k", "o", "l", "i", "ch", "e", "s", "t", "v", "a", " ", "g", "a", "z",
     "a">>,
   <<"d", "o", "z", "i", "r", "o", "v", "a", "n", "i", "e", " ", "m", "e", "t", "a",
     "n", "o", "l", "a">>,
   <<"s", "t", "a", "n", "c", "i", "ya", " ", "d", "o", "z", "i", "r", "o", "v", "a",
     "n", "i", "ya">>,
   <<"n", "a", "s", "o", "s", " ", "d", "o", "z", "i", "r", "o", "v", "a", "n", "i",
     "ya">>,
   <<"d", "o", "z", "i", "r", "u", "yu", "sch", "a", "ya", " ", "s", "t", "a", "n",
     "c", "i", "ya">>,
   <<"d", "o", "z", "i", "r", "o", "v", "o", "ch", "n", "a", "ya", " ", "s", "t", "a",
     "n", "c", "i", "ya">>,
   <<"g", "a", "z", "o", "a", "n", "a", "l", "i", "z">>,
   <<"g", "a", "z", "o", "a", "n", "a", "l", "i", "z", "a", "t", "o", "r">>,
   <<"g", "a", "z", "o", "a", "n", "a", "l", "i", "z", "a", "t", "o", "r", "y">>,
   <<"g", "a", "z", "o", "v", "y", "j", " ", "h", "r", "o", "m", "a", "t", "o", "g",
     "r", "a", "f">>,
   <<"h", "r", "o", "m", "a", "t", "o", "g", "r", "a", "f">>,
   <<"h", "r", "o", "m", "a", "t", "o", "g", "r", "a", "f", "y">>,
   <<"p", "o", "t", "o", "ch", "n", "y", "j", " ", "h", "r", "o", "m", "a", "t", "o",
     "g", "r", "a", "f">>,
   <<"k", "i", "p", "i", "lat_a">>,
   <<"k", "i", "p", " ", "i", " ", "a">>,
   <<"k", "i", "p", "i", "a">>,
   <<"k", "o", "n", "t", "r", "o", "l", "ss", "n", "o", "-", "i", "z", "m", "e", "r",
     "i", "t", "e", "l", "ss", "n", "y", "e", " ", "p", "r", "i", "b", "o", "r", "y">>,
   <<"k", "o", "n", "t", "r", "o", "l", "ss", "n", "o", " ", "i", "z", "m", "e", "r",
     "i", "t", "e", "l", "ss", "n", "y", "e", " ", "p", "r", "i", "b", "o", "r", "y">>,
   <<"a", "v", "t", "o", "m", "a", "t", "i", "z", "a", "c", "i", "ya", " ", "t", "e",
     "h", "n", "o", "l", "o", "g", "i", "ch", "e", "s", "k", "o", "g", "o", " ", "p",
     "r", "o", "c", "e", "s", "s", "a">>,
   <<"sh", "k", "a", "f", " ", "a", "v", "t", "o", "m", "a", "t", "i", "k", "i">>,
   <<"sh", "k", "a", "f", " ", "u", "p", "r", "a", "v", "l", "e", "n", "i", "ya">>
  }

OTHER_DIRECTIONS ==
  {
   <<"d", "a", "t", "ch", "i", "k">>,
   <<"d", "a", "t", "ch", "i", "k", "i">>,
   <<"r", "a", "s", "h", "o", "d", "o", "m", "e", "r">>,
   <<"r", "a", "s", "h", "o", "d", "o", "m", "e", "r", "y">>,
   <<"s", "ch", "yo", "t", "ch", "i", "k">>,
   <<"s", "ch", "e", "t", "ch", "i", "k">>,
   <<"s", "ch", "yo", "t", "ch", "i", "k", "i">>,
   <<"m", "a", "n", "o", "m", "e", "t", "r">>,
   <<"p", "r", "e", "o", "b", "r", "a", "z", "o", "v", "a", "t", "e", "l", "ss", " ",
     "d", "a", "v", "l", "e", "n", "i", "ya">>,
   <<"t", "e", "r", "m", "o", "p", "r", "e", "o", "b", "r", "a", "z", "o", "v", "a",
     "t", "e", "l", "ss">>,
   <<"v", "y", "ch", "i", "s", "l", "i", "t", "e", "l", "ss">>,
   <<"sh", "k", "a", "f", " ", "u", "ch", "e", "t", "a">>,
   <<"sh", "k", "a", "f", " ", "u", "ch", "yo", "t", "a">>,
   <<"sh", "k", "a", "f", " ", "s", "i", "g", "n", "a", "l", "i", "z", "a", "c", "i",
     "i">>,
   <<"sh", "k", "a", "f", " ", "t", "e", "l", "e", "m", "e", "h", "a", "n", "i", "k",
     "i">>,
   <<"t", "e", "l", "e", "m", "e", "h", "a", "n", "i", "k", "a">>,
   <<"t", "e", "l", "e", "m", "e", "t", "r", "i", "ya">>,
   <<"s", "i", "g", "n", "a", "l", "i", "z", "a", "t", "o", "r">>,
   <<"a", "n", "a", "l", "i", "z", "a", "t", "o", "r">>,
   <<"a", "n", "a", "l", "i", "z", "a", "t", "o", "r", "y">>,
   <<"sch", "i", "t", " ", "u", "p", "r", "a", "v", "l", "e", "n", "i", "ya">>,
   <<"sch", "i", "t", " ", "a", "v", "t", "o", "m", "a", "t", "i", "k", "i">>,
   <<"sh", "k", "a", "f", " ", "u", "p", "r", "a", "v", "l", "e", "n", "i", "ya", " ",
     "n", "a", "s", "o", "s", "a", "m", "i">>
  }

BAD_TOPICS ==
  {
   <<"l", "e", "k", "a", "r", "s", "t", "v", "e", "n", "n">>,
   <<"m", "e", "d", "i", "c", "i", "n", "s", "k">>,
   <<"m", "e", "d", "i", "c", "i", "n", "s", "k", "o", "e", " ", "o", "b", "o", "r",
     "u", "d", "o", "v", "a", "n", "i", "e">>,
   <<"m", "e", "d", "i", "c", "i", "n", "s", "k", "i", "e", " ", "i", "z", "d", "e",
     "l", "i", "ya">>,
   <<"s", "r", "e", "d", "s", "t", "v", " ", "i", "n", "d", "i", "v", "i", "d", "u",
     "a", "l", "ss", "n", "o", "j", " ", "z", "a", "sch", "i", "t", "y">>,
   <<"s", "i", "z">>,
   <<"o", "b", "u", "v", "ss">>,
   <<"o", "b", "u", "v", "i">>,
   <<"o", "d", "e", "zh", "d", "a">>,
   <<"p", "o", "s", "t", "e", "l", "ss", "n", "o", "e", " ", "b", "e", "l", "ss", "yo">>,
   <<"p", "o", "s", "t", "e", "l", "ss", "n", "o", "e", " ", "b", "e", "l", "ss", "e">>,
   <<"p", "o", "r", "t", "ss", "e", "r", "y">>,
   <<"sh", "t", "o", "r", "y">>,
   <<"z", "a", "n", "a", "v", "e", "s", "k", "i">>,
   <<"t", "k", "a", "n", "i">>,
   <<"v", "o", "d", "a", " ", "p", "i", "t", "ss", "e", "v", "a", "ya">>,
   <<"b", "u", "t", "i", "l", "i", "r", "o", "v", "a", "n", "n", "a", "ya", " ", "v",
     "o", "d", "a">>,
   <<"p", "i", "t", "ss", "e", "v", "a", "ya", " ", "v", "o", "d", "a">>,
   <<"p", "r", "o", "d", "u", "k", "t", "y", " ", "p", "i", "t", "a", "n", "i", "ya">>,
   <<"p", "r", "o", "d", "o", "v", "o", "l", "ss", "s", "t", "v">>,
   <<"k", "e", "j", "t", "e", "r", "i", "n", "g">>,
   <<"s", "t", "o", "l", "o", "v", "a", "ya">>,
   <<"b", "u", "f", "e", "t">>,
   <<"l", "i", "f", "t", "o", "v">>,
   <<"l", "i", "f", "t">>,
   <<"l", "i", "f", "t", "o", "v", "o", "e", " ", "o", "b", "o", "r", "u", "d", "o",
     "v", "a", "n", "i", "e">>,
   <<"r", "e", "m", "o", "n", "t", " ", "z", "d", "a", "n", "i", "ya">>,
   <<"r", "e", "m", "o", "n", "t", " ", "p", "o", "m", "e", "sch", "e", "n", "i", "j">>,
   <<"k", "a", "p", "i", "t", "a", "l", "ss", "n", "y", "j", " ", "r", "e", "m", "o",
     "n", "t">>,
   <<"s", "t", "r", "o", "i", "t", "e", "l", "ss", "n", "o", "-", "m", "o", "n", "t",
     "a", "zh", "n", "y", "e", " ", "r", "a", "b", "o", "t", "y">>,
   <<"s", "t", "r", "o", "i", "t", "e", "l", "ss", "n", "o", " ", "m", "o", "n", "t",
     "a", "zh", "n", "y", "e", " ", "r", "a", "b", "o", "t", "y">>,
   <<"s", "t", "r", "o", "i", "t", "e", "l", "ss", "s", "t", "v", "o">>,
   <<"o", "t", "d", "e", "l", "o", "ch", "n", "y", "e", " ", "r", "a", "b", "o", "t",
     "y">>,
   <<"r", "e", "m", "o", "n", "t", " ", "k", "r", "o", "v", "l", "i">>,
   <<"f", "a", "s", "a", "d">>,
   <<"u", "b", "o", "r", "k", "a", " ", "p", "o", "m", "e", "sch", "e", "n", "i", "j">>,
   <<"k", "l", "i", "n", "i", "n", "g">>,
   <<"v", "y", "v", "o", "z", " ", "m", "u", "s", "o", "r", "a">>,
   <<"o", "h", "r", "a", "n", "a", " ", "o", "b", "hs", "e", "k", "t", "a">>,
   <<"o", "h", "r", "a", "n", "n", "y", "e", " ", "u", "s", "l", "u", "g", "i">>,
   <<"u", "s", "l", "u", "g", "i", " ", "t", "a", "k", "s", "i">>,
   <<"p", "a", "s", "s", "a", "zh", "i", "r", "s", "k", "i", "e", " ", "p", "e", "r",
     "e", "v", "o", "z", "k", "i">>,
   <<"k", "a", "n", "c", "e", "l", "ya", "r", "s", "k">>,
   <<"k", "a", "n", "c", "e", "l", "ya", "r", "s", "k", "i", "e", " ", "t", "o", "v",
     "a", "r", "y">>,
   <<"b", "u", "m", "a", "g", "a", " ", "o", "f", "i", "s", "n", "a", "ya">>,
   <<"k", "a", "r", "t", "r", "i", "d", "zh", "e", "j">>,
   <<"k", "a", "r", "t", "r", "i", "d", "zh", "i">>,
   <<"z", "a", "p", "r", "a", "v", "k", "a", " ", "k", "a", "r", "t", "r", "i", "d",
     "zh", "e", "j">>,
   <<"o", "r", "g", "t", "e", "h", "n", "i", "k", "a">>,
   <<"m", "e", "b", "e", "l", "ss">>,
   <<"o", "f", "i", "s", "n", "a", "ya", " ", "m", "e", "b", "e", "l", "ss">>,
   <<"m", "ya", "g", "k", "a", "ya", " ", "m", "e", "b", "e", "l", "ss">>,
   <<"i", "g", "r", "u", "sh", "k", "i">>,
   <<"k", "n", "i", "g">>,
   <<"k", "n", "i", "g", "i">>,
   <<"i", "g", "r", "u", "sh", "e", "k">>
  }

\* a title with no configured phrase, capitals and a double blank
T_NEUTRAL ==
  <<"P", "o", "s", "t", "a", "v", "k", "a", " ", " ", "U", "G", "L", "YA">>

\* the short phrase s-i-z inside a longer word
T_SIZYJ ==
  <<"S", "i", "z", "y", "j">>

\* the short phrase s-i-z as a word of its own, in capitals
T_SIZ ==
  <<"S", "I", "Z">>

\* a negative phrase
D_BAD ==
  <<"r", "e", "m", "o", "n", "t", " ", "k", "r", "o", "v", "l", "i">>

\* a top-priority phrase across a line break
D_TOP ==
  <<"U", "z", "e", "l", "\n", " ", "u", "ch", "e", "t", "a">>

\* a secondary phrase
D_OTHER ==
  <<"d", "a", "t", "ch", "i", "k">>

\* a top-priority, a secondary and a negative phrase
D_MIX ==
  <<"h", "r", "o", "m", "a", "t", "o", "g", "r", "a", "f", ",", " ", "m", "a", "n",
    "o", "m", "e", "t", "r", ",", " ", "m", "e", "b", "e", "l", "ss">>
\* re.sub(r"\s+", " ", s): each run of white space becomes one blank
RECURSIVE CollapseSpace(_)
CollapseSpace(s) ==
  IF s = <<>> THEN <<>>
  ELSE IF IsSpace(Head(s)) THEN <<" ">> \o CollapseSpace(LStrip(s))
  ELSE <<Head(s)>> \o CollapseSpace(Tail(s))

_norm(text) == <<" ">> \o CollapseSpace(Lower(text)) \o <<" ">>

\* the regex assertion \b between text[p - 1] and text[p]
WordBoundary(text, p) ==
  LET W(k) == k >= 1 /\ k <= Len(text) /\ IsWordChar(text[k])
  IN  W(p - 1) # W(p)

\* re.search(r"\b" + re.escape(kw) + r"\b", text)
SearchWord(kw, text) ==
  \E i \in 1..(Len(text) + 1) :
    /\ OccursAt(kw, text, i)
    /\ WordBoundary(text, i)
    /\ WordBoundary(text, i + Len(kw))

\* _find_keywords matching every phrase by containment
_find_keywords_Substring(text, keywords) ==
  {kw \in keywords : Contains(Lower(kw), text)}

_find_keywords(text, keywords) ==
  {kw \in keywords :
     LET kw_norm == Lower(kw)
     IN  IF Contains(<<" ">>, kw_norm) \/ Len(kw_norm) >= 4
         THEN Contains(kw_norm, text)
         ELSE SearchWord(kw_norm, text)}

\* the LocalAnalysis record; matched_keywords and negative_reasons are sorted
\* lists without repeats in the program and sets here
LocalAnalysis(code, title, url, customer, description, is_local_match, priority_level, matched_keywords, negative_reasons) ==
  [code             |-> code,
   title            |-> title,
   url              |-> url,
   customer         |-> customer,
   description      |-> description,
   is_local_match   |-> is_local_match,
   priority_level   |-> priority_level,
   matched_keywords |-> matched_keywords,
   negative_reasons |-> negative_reasons]

\* analyze_tender with the positive test ahead of the negative one
analyze_tender_TopFirst(code, title, url, customer, description) ==
  LET text == _norm(title \o <<" ">> \o description)
      top_hits == _find_keywords(text, TOP_DIRECTIONS)
      other_hits == _find_keywords(text, OTHER_DIRECTIONS)
      bad_hits == _find_keywords(text, BAD_TOPICS)
  IN  IF top_hits # {}
      THEN LocalAnalysis(code, title, url, customer, description, TRUE, Some(1),
                         top_hits \cup other_hits, {})
      ELSE IF bad_hits # {}
      THEN LocalAnalysis(code, title, url, customer, description, FALSE, None,
                         top_hits \cup other_hits, bad_hits)
      ELSE LocalAnalysis(code, title, url, customer, description, TRUE,
                         IF other_hits # {} THEN Some(2) ELSE Some(0),
                         top_hits \cup other_hits, {})

\* analyze_tender rejecting a text without any domain phrase
analyze_tender_NoNeutral(code, title, url, customer, description) ==
  LET text == _norm(title \o <<" ">> \o description)
      top_hits == _find_keywords(text, TOP_DIRECTIONS)
      other_hits == _find_keywords(text, OTHER_DIRECTIONS)
      bad_hits == _find_keywords(text, BAD_TOPICS)
  IN  IF bad_hits # {} \/ top_hits \cup other_hits = {}
      THEN LocalAnalysis(code, title, url, customer, description, FALSE, None,
                         top_hits \cup other_hits, bad_hits)
      ELSE LocalAnalysis(code, title, url, customer, description, TRUE,
                         IF top_hits # {} THEN Some(1) ELSE Some(2),
                         top_hits \cup other_hits, {})

\* analyze_tender forgetting the positive phrases of a rejected text
analyze_tender_DropPositives(code, title, url, customer, description) ==
  LET text == _norm(title \o <<" ">> \o description)
      top_hits == _find_keywords(text, TOP_DIRECTIONS)
      other_hits == _find_keywords(text, OTHER_DIRECTIONS)
      bad_hits == _find_keywords(text, BAD_TOPICS)
  IN  IF bad_hits # {}
      THEN LocalAnalysis(code, title, url, customer, description, FALSE, None, {}, bad_hits)
      ELSE LocalAnalysis(code, title, url, customer, description, TRUE,
                         IF top_hits # {} THEN Some(1)
                         ELSE IF other_hits # {} THEN Some(2)
                         ELSE Some(0),
                         top_hits \cup other_hits, {})

analyze_tender(code, title, url, customer, description) ==
  LET text == _norm(title \o <<" ">> \o description)
      top_hits == _find_keywords(text, TOP_DIRECTIONS)
      other_hits == _find_keywords(text, OTHER_DIRECTIONS)
      bad_hits == _find_keywords(text, BAD_TOPICS)
  IN  IF bad_hits # {}
      THEN LocalAnalysis(code, title, url, customer, description, FALSE, None,
                         top_hits \cup other_hits, bad_hits)
      ELSE LocalAnalysis(code, title, url, customer, description, TRUE,
                         IF top_hits # {} THEN Some(1)
                         ELSE IF other_hits # {} THEN Some(2)
                         ELSE Some(0),
                         top_hits \cup other_hits, {})

-----------------------------------------------------------------------------
(* Classifier: analyze_tender applied to a title and a description         *)

AnTitles ==
  TOP_DIRECTIONS \cup OTHER_DIRECTIONS \cup BAD_TOPICS \cup {T_NEUTRAL, T_SIZYJ, T_SIZ}

AnDescriptions == {<<>>, D_BAD, D_TOP, D_OTHER, D_MIX}

ClassifierInit ==
  /\ an_title \in AnTitles
  /\ an_description \in AnDescriptions
  /\ analysis = None
  /\ IdleBut("classifier")

Analyze ==
  /\ analysis = None
  /\ analysis' = Some(analyze_tender(<<"1">>, an_title, <<>>, <<>>, an_description))
  /\ UNCHANGED <<an_title, an_description, nonan>>

ClassifierNext == Analyze

SpecClassifier == ClassifierInit /\ [][ClassifierNext]_vars

-----------------------------------------------------------------------------
(* Escalation Selector: rost_mce from the collected list to the selection  *)

MAX_GPT_TENDERS == 12

\* _get_desc_for_local: raw_block, else detail_text, else ""
_get_desc_for_local(t) ==
  IF t.raw_block # <<>> THEN t.raw_block ELSE OrEmpty(t.detail_text)

\* getattr(t, "customer", None) or (t.city or "") or (t.region or ""):
\* a Tender of the collector has no customer
CustomerOf(t) == IF OrEmpty(t.city) # <<>> THEN OrEmpty(t.city) ELSE OrEmpty(t.region)

\* the call of analyze_tender in the loop over the collected Tenders
LocalOf(t) == analyze_tender(t.number, t.title, t.url, CustomerOf(t), _get_desc_for_local(t))

\* the loop "for t in tenders": the (Tender, LocalAnalysis) pairs of the matches
RECURSIVE LocalItemsFull(_)
LocalItemsFull(ts) ==
  IF ts = <<>> THEN <<>>
  ELSE LET local == LocalOf(Head(ts))
       IN  IF local.is_local_match
           THEN <<[tender |-> Head(ts), local |-> Some(local)]>> \o LocalItemsFull(Tail(ts))
           ELSE LocalItemsFull(Tail(ts))

\* the sort key (priority_level, published, number) of a matched pair: a < b
PairKeyLess(a, b) ==
  \/ a.local[1].priority_level[1] < b.local[1].priority_level[1]
  \/ /\ a.local[1].priority_level[1] = b.local[1].priority_level[1]
     /\ KeyLess(a.tender, b.tender)

InsertPairDesc(sorted, x) ==
  LET Smaller(i) == PairKeyLess(sorted[i], x)
      k == FirstIndex({n \in 1..Len(sorted) : Smaller(n)})
  IN  IF k = 0 THEN Append(sorted, x)
      ELSE SubSeq(sorted, 1, k - 1) \o <<x>> \o SubSeq(sorted, k, Len(sorted))

\* local_items_full.sort(key=..., reverse=True): stable
RECURSIVE SortPairsDesc(_)
SortPairsDesc(s) ==
  IF s = <<>> THEN <<>>
  ELSE InsertPairDesc(SortPairsDesc(SubSeq(s, 1, Len(s) - 1)), s[Len(s)])

\* s[:n]
Take(s, n) == SubSeq(s, 1, IF n < Len(s) THEN n ELSE Len(s))

\* the selection without the sort: the first matches in collected order
SelectForGpt_NoSort(ts) ==
  LET full == LocalItemsFull(ts)
      sent == IF MAX_GPT_TENDERS < Len(ts) THEN MAX_GPT_TENDERS ELSE Len(ts)
  IN  IF Len(full) > 0
      THEN [local_items |-> Take(full, MAX_GPT_TENDERS),
            local_found |-> Len(full),
            sent_to_gpt |-> Len(Take(full, MAX_GPT_TENDERS))]
      ELSE [local_items |-> [i \in 1..sent |-> [tender |-> ts[i], local |-> None]],
            local_found |-> 0,
            sent_to_gpt |-> sent]

\* the selection without the fallback: nothing is sent when nothing matched
SelectForGpt_NoFallback(ts) ==
  LET full == LocalItemsFull(ts)
  IN  [local_items |-> Take(SortPairsDesc(full), MAX_GPT_TENDERS),
       local_found |-> Len(full),
       sent_to_gpt |-> Len(Take(SortPairsDesc(full), MAX_GPT_TENDERS))]

\* the selection topped up with the Tenders the local filter rejected
SelectForGpt_TopUp(ts) ==
  LET full == LocalItemsFull(ts)
      rest == SelectSeq(ts, LAMBDA t : ~LocalOf(t).is_local_match)
      all  == SortPairsDesc(full) \o [i \in 1..Len(rest) |-> [tender |-> rest[i], local |-> None]]
  IN  [local_items |-> Take(all, MAX_GPT_TENDERS),
       local_found |-> Len(full),
       sent_to_gpt |-> Len(Take(all, MAX_GPT_TENDERS))]

\* the selection whose fallback reports K whatever the run collected
SelectForGpt_FixedSent(ts) ==
  LET full == LocalItemsFull(ts)
      sent == IF MAX_GPT_TENDERS < Len(ts) THEN MAX_GPT_TENDERS ELSE Len(ts)
  IN  IF Len(full) > 0
      THEN [local_items |-> Take(SortPairsDesc(full), MAX_GPT_TENDERS),
            local_found |-> Len(full),
            sent_to_gpt |-> Len(Take(SortPairsDesc(full), MAX_GPT_TENDERS))]
      ELSE [local_items |-> [i \in 1..sent |-> [tender |-> ts[i], local |-> None]],
            local_found |-> 0,
            sent_to_gpt |-> MAX_GPT_TENDERS]

\* rost_mce, from the local filter to the choice of whom to send
SelectForGpt(ts) ==
  LET full == LocalItemsFull(ts)
      sent == IF MAX_GPT_TENDERS < Len(ts) THEN MAX_GPT_TENDERS ELSE Len(ts)
  IN  IF Len(full) > 0
      THEN [local_items |-> Take(SortPairsDesc(full), MAX_GPT_TENDERS),
            local_found |-> Len(full),
            sent_to_gpt |-> Len(Take(SortPairsDesc(full), MAX_GPT_TENDERS))]
      ELSE [local_items |-> [i \in 1..sent |-> [tender |-> ts[i], local |-> None]],
            local_found |-> 0,
            sent_to_gpt |-> sent]

-----------------------------------------------------------------------------
(* Selector: inputs of the model                                           *)

\* Tenders one run may collect
MaxTenders == 14

DigitChar(n) ==
  CASE n = 0 -> "0" [] n = 1 -> "1" [] n = 2 -> "2" [] n = 3 -> "3" [] n = 4 -> "4"
    [] n = 5 -> "5" [] n = 6 -> "6" [] n = 7 -> "7" [] n = 8 -> "8" [] n = 9 -> "9"

\* the id of the k-th tender of the source, k below 100, as a string
NumStr(k) == IF k < 10 THEN <<DigitChar(k)>> ELSE <<DigitChar(k \div 10), DigitChar(k % 10)>>

\* listing blocks with a top-priority title, a secondary title, a negative
\* title and a title without any configured phrase
SEL_TOP ==
  <<"\n", "U", "z", "e", "l", " ", "u", "ch", "e", "t", "a", "\n",
    "P", "r", "i", "e", "m", " ", "z", "a", "ya", "v", "o", "k">>
SEL_OTHER ==
  <<"\n", "D", "a", "t", "ch", "i", "k", "\n",
    "P", "r", "i", "e", "m", " ", "z", "a", "ya", "v", "o", "k">>
SEL_BAD ==
  <<"\n", "M", "e", "b", "e", "l", "ss", "\n",
    "P", "r", "i", "e", "m", " ", "z", "a", "ya", "v", "o", "k">>
SEL_NEUTRAL ==
  <<"\n", "U", "g", "o", "l", "ss", "\n",
    "P", "r", "i", "e", "m", " ", "z", "a", "ya", "v", "o", "k">>

SelBodies == {SEL_TOP, SEL_OTHER, SEL_BAD, SEL_NEUTRAL}

\* publish dates 02.11.26 and 01.11.26: all on one day, or alternating
SelDatePairs ==
  {<<ToOrdinal(2026, 11, 2), ToOrdinal(2026, 11, 2)>>,
   <<ToOrdinal(2026, 11, 2), ToOrdinal(2026, 11, 1)>>}

\* the list fetch_rostender_tenders_filtered returns for a source of n tenders
\* "1".."n", the k-th with the body and the date the two-element patterns give
\* it by the parity of k; the detail page of tender "3" does not load
CollectedList(n, bodies, dates) ==
  LET ts == [k \in 1..n |->
               Tender("rostender-filter", NumStr(k), dates[(k % 2) + 1],
                      bodies[(k % 2) + 1], _cleanup_lines(bodies[(k % 2) + 1]))]
  IN  SortDesc(_fill_details(ts, {NumStr(k) : k \in 1..n} \ {<<"3">>}))

SelectorInit ==
  /\ \E n \in 0..MaxTenders, bodies \in SelBodies \X SelBodies, dates \in SelDatePairs :
       tenders = CollectedList(n, bodies, dates)
  /\ local_items = <<>> /\ local_found = 0 /\ sent_to_gpt = 0
  /\ run_pc = "loaded"
  /\ rost_gpt_results = <<>> /\ gpt_answers = 0 /\ good_codes = {}
  /\ good_reasons = <<>> /\ good_tenders = <<>> /\ matched_count = 0
  /\ stats = None /\ sent_messages = <<>>
  /\ IdleBut("selector")

\* rost_mce: "if not tenders: ... return"
RostMceNothing ==
  /\ run_pc = "loaded" /\ tenders = <<>>
  /\ run_pc' = "returned"
  /\ UNCHANGED <<tenders, local_items, local_found, sent_to_gpt, repvars, nonrun>>

\* rost_mce: the local filter and the choice of the selection
RostMceSelect ==
  /\ run_pc = "loaded" /\ tenders # <<>>
  /\ \E sel \in {SelectForGpt(tenders)} :
       /\ local_items' = sel.local_items
       /\ local_found' = sel.local_found
       /\ sent_to_gpt' = sel.sent_to_gpt
  /\ run_pc' = "selected"
  /\ UNCHANGED <<tenders, repvars, nonrun>>


-----------------------------------------------------------------------------
(* External classifier: gpt_client                                         *)

\* JSON values, as json.loads builds them
JNull == [type |-> "null"]
JBool(b) == [type |-> "bool", bool |-> b]
JNum(n) == [type |-> "number", num |-> n]
JStr(s) == [type |-> "string", str |-> s]
JList(xs) == [type |-> "list", elems |-> xs]
JObj(members) == [type |-> "object", members |-> members]

IS_MATCH == <<"i", "s", "_", "m", "a", "t", "c", "h">>

\* JSON documents a reply may carry.  A document is one token of the reply
\* text; the text around it (white space, code fences, other words) is
\* modelled character by character.
JsonDocs ==
  {"{\"is_match\": true, \"reason\": \" ok \"}",
   "{\"is_match\": false, \"reason\": \"no\"}",
   "{\"is_match\": true, \"reason\": \"da\"}",
   "{\"is_match\": \"false\"}",
   "{\"reason\": \"ok\"}",
   "{}", "5", "0", "true", "null", "\"is_match\"", "[\"is_match\"]", "[1]"}

\* the value of each document
JsonValue(doc) ==
  CASE doc = "{\"is_match\": true, \"reason\": \" ok \"}" ->
         JObj([is_match |-> JBool(TRUE), reason |-> JStr(<<" ", "o", "k", " ">>)])
    [] doc = "{\"is_match\": false, \"reason\": \"no\"}" ->
         JObj([is_match |-> JBool(FALSE), reason |-> JStr(<<"n", "o">>)])
    [] doc = "{\"is_match\": true, \"reason\": \"da\"}" ->
         JObj([is_match |-> JBool(TRUE), reason |-> JStr(<<"d", "a">>)])
    [] doc = "{\"is_match\": \"false\"}" ->
         JObj([is_match |-> JStr(<<"f", "a", "l", "s", "e">>)])
    [] doc = "{\"reason\": \"ok\"}" -> JObj([reason |-> JStr(<<"o", "k">>)])
    [] doc = "{}" -> JObj(<<>>)
    [] doc = "5" -> JNum(5)
    [] doc = "0" -> JNum(0)
    [] doc = "true" -> JBool(TRUE)
    [] doc = "null" -> JNull
    [] doc = "\"is_match\"" -> JStr(IS_MATCH)
    [] doc = "[\"is_match\"]" -> JList(<<JStr(IS_MATCH)>>)
    [] doc = "[1]" -> JList(<<JNum(1)>>)

\* json.loads: one document, white space allowed around it; anything else
\* raises.  The result is [ok, value].
json_loads(text) ==
  LET t == Strip(text)
  IN  IF Len(t) = 1 /\ t[1] \in JsonDocs
      THEN [ok |-> TRUE, value |-> JsonValue(t[1])]
      ELSE [ok |-> FALSE, value |-> JNull]

\* three backticks, each written "bq"
FENCE == <<"bq", "bq", "bq">>

\* "\n".join(lines)
RECURSIVE JoinLines(_)
JoinLines(lines) ==
  IF lines = <<>> THEN <<>>
  ELSE IF Len(lines) = 1 THEN lines[1]
  ELSE lines[1] \o <<"\n">> \o JoinLines(Tail(lines))

\* _parse_gpt_json: the parsed value, Python's None (JNull) when json.loads
\* raises
_parse_gpt_json(raw) ==
  LET text == Strip(raw)
      lines == SplitLines(text)
      lines1 == IF lines # <<>> THEN Tail(lines) ELSE lines
      lines2 == IF lines1 # <<>> /\ StartsWith(Strip(lines1[Len(lines1)]), FENCE)
                THEN SubSeq(lines1, 1, Len(lines1) - 1)
                ELSE lines1
      text2 == IF StartsWith(text, FENCE) THEN Strip(JoinLines(lines2)) ELSE text
  IN  json_loads(text2).value

\* bool(v)
Truthy(v) ==
  CASE v.type = "null" -> FALSE
    [] v.type = "bool" -> v.bool
    [] v.type = "number" -> v.num # 0
    [] v.type = "string" -> v.str # <<>>
    [] v.type = "list" -> v.elems # <<>>
    [] v.type = "object" -> DOMAIN v.members # {}

\* "is_match" in v: "yes", "no", or "TypeError" for a value that is no
\* container
HasIsMatch(v) ==
  CASE v.type = "object" -> IF "is_match" \in DOMAIN v.members THEN "yes" ELSE "no"
    [] v.type = "string" -> IF Contains(IS_MATCH, v.str) THEN "yes" ELSE "no"
    [] v.type = "list" ->
         IF \E i \in 1..Len(v.elems) : v.elems[i] = JStr(IS_MATCH) THEN "yes" ELSE "no"
    [] OTHER -> "TypeError"

\* dict.get(key)
DictGet(v, key) == IF key \in DOMAIN v.members THEN v.members[key] ELSE JNull

\* "Prichina ne ukazana GPT."
REASON_DEFAULT ==
  <<"P", "r", "i", "ch", "i", "n", "a", " ", "n", "e", " ", "u", "k", "a", "z", "a",
    "n", "a", " ", "G", "P", "T", ".">>

\* str(parsed.get("reason") or "").strip() or "Prichina ne ukazana GPT."
ReasonOf(v) ==
  LET r == DictGet(v, "reason")
      s == IF Truthy(r) THEN Strip(r.str) ELSE <<>>
  IN  IF s # <<>> THEN s ELSE REASON_DEFAULT

GPTResult(code, is_match, reason) ==
  [code |-> code, is_match |-> is_match, reason |-> reason]

\* what one pass of the loop body leaves: the verdicts and whether the loop
\* goes on ("loop") or an exception leaves the call ("raised")

\* a transport fault that is not caught
OnTransportFault_Propagates(res) == [gpt_results |-> res, gpt_pc |-> "raised"]

\* the except branch of the request: log and continue
OnTransportFault(res) == [gpt_results |-> res, gpt_pc |-> "loop"]

\* the loop body after the request, for the content of the reply (None for a
\* null content)
OnContent(res, code, content) ==
  IF content = None
  THEN [gpt_results |-> res, gpt_pc |-> "raised"]
  ELSE LET parsed == _parse_gpt_json(content[1])
       IN  IF ~Truthy(parsed) THEN [gpt_results |-> res, gpt_pc |-> "loop"]
           ELSE IF HasIsMatch(parsed) = "TypeError"
           THEN [gpt_results |-> res, gpt_pc |-> "raised"]
           ELSE IF HasIsMatch(parsed) = "no" THEN [gpt_results |-> res, gpt_pc |-> "loop"]
           ELSE IF parsed.type # "object"
           THEN [gpt_results |-> res, gpt_pc |-> "raised"]
           ELSE [gpt_results |->
                   Append(res, GPTResult(code, Truthy(DictGet(parsed, "is_match")),
                                         ReasonOf(parsed))),
                 gpt_pc |-> "loop"]

-----------------------------------------------------------------------------
(* External classifier: inputs of the model                                *)

\* candidates of one call
MaxItems == 3

\* the ways a request fails inside the try block: no connection, timeout,
\* a status that raise_for_status rejects, a body that is not JSON, a body
\* without choices[0].message.content
TransportFaults == {"connect_error", "timeout", "http_status", "no_content"}

\* reply contents
Contents ==
  {None,
   Some(<<"{\"is_match\": true, \"reason\": \" ok \"}">>),
   Some(FENCE \o <<"j", "s", "o", "n", "\n", "{\"is_match\": false, \"reason\": \"no\"}",
                    "\n">> \o FENCE),
   Some(FENCE \o <<"\n", "{\"is_match\": true, \"reason\": \" ok \"}">>),
   Some(<<" ", "{\"is_match\": \"false\"}", "\n">>),
   Some(<<"{\"reason\": \"ok\"}">>),
   Some(<<"{}">>),
   Some(<<"5">>),
   Some(<<"0">>),
   Some(<<"true">>),
   Some(<<"null">>),
   Some(<<"\"is_match\"">>),
   Some(<<"[\"is_match\"]">>),
   Some(<<"[1]">>),
   Some(<<"D", "a", " ", "{\"is_match\": true, \"reason\": \" ok \"}">>),
   Some(<<>>)}

\* the selection a run without local matches hands to the classifier
Candidates ==
  LET ts == CollectedList(MaxItems, <<SEL_BAD, SEL_BAD>>,
                          <<ToOrdinal(2026, 11, 2), ToOrdinal(2026, 11, 1)>>)
  IN  [i \in 1..MaxItems |-> [tender |-> ts[i], local |-> None]]

GptInit ==
  /\ OPENAI_API_KEY \in {<<>>, <<"k", "e", "y">>}
  /\ \E n \in 0..MaxItems : items = Take(Candidates, n)
  /\ gpt_idx = 0
  /\ gpt_results = <<>>
  /\ gpt_pc = "called"
  /\ gpt_log = <<>>
  /\ IdleBut("gpt")

\* "if not OPENAI_API_KEY: return []"
GptNoKey ==
  /\ gpt_pc = "called" /\ OPENAI_API_KEY = <<>>
  /\ gpt_pc' = "returned"
  /\ UNCHANGED <<OPENAI_API_KEY, items, gpt_idx, gpt_results, gpt_log,
                 nongpt>>

\* results = [], the client is opened, the loop starts
GptStart ==
  /\ gpt_pc = "called" /\ OPENAI_API_KEY # <<>>
  /\ gpt_pc' = "loop" /\ gpt_idx' = 1 /\ gpt_results' = <<>>
  /\ UNCHANGED <<OPENAI_API_KEY, items, gpt_log, nongpt>>

\* one pass of the loop: the request for candidate gpt_idx fails
GptTransportFault ==
  /\ gpt_pc = "loop" /\ gpt_idx <= Len(items)
  /\ \E fault \in TransportFaults :
       \E r \in {OnTransportFault(gpt_results)} :
         /\ gpt_results' = r.gpt_results
         /\ gpt_pc' = r.gpt_pc
         /\ gpt_log' = Append(gpt_log, [code |-> items[gpt_idx].tender.number,
                                        fault |-> fault, content |-> None])
  /\ gpt_idx' = gpt_idx + 1
  /\ UNCHANGED <<OPENAI_API_KEY, items, nongpt>>

\* one pass of the loop: the request for candidate gpt_idx is answered
GptReply ==
  /\ gpt_pc = "loop" /\ gpt_idx <= Len(items)
  /\ \E content \in Contents :
       \E r \in {OnContent(gpt_results, items[gpt_idx].tender.number, content)} :
         /\ gpt_results' = r.gpt_results
         /\ gpt_pc' = r.gpt_pc
         /\ gpt_log' = Append(gpt_log, [code |-> items[gpt_idx].tender.number,
                                        fault |-> "none", content |-> content])
  /\ gpt_idx' = gpt_idx + 1
  /\ UNCHANGED <<OPENAI_API_KEY, items, nongpt>>

\* the loop is exhausted: return results
GptReturn ==
  /\ gpt_pc = "loop" /\ gpt_idx > Len(items)
  /\ gpt_pc' = "returned"
  /\ UNCHANGED <<OPENAI_API_KEY, items, gpt_idx, gpt_results, gpt_log,
                 nongpt>>

GptNext == GptNoKey \/ GptStart \/ GptTransportFault \/ GptReply \/ GptReturn

SpecGpt == GptInit /\ [][GptNext]_vars
-----------------------------------------------------------------------------
(* The run of the bot command, after the selection: rost_mce               *)

\* ask_gpt_about_tenders as one call: the loop over the candidates, the
\* k-th request getting the k-th reply; [gpt_results, gpt_pc], gpt_pc
\* "returned" or "raised"
RECURSIVE GptLoop(_, _, _)
GptLoop(its, replies, res) ==
  IF its = <<>> THEN [gpt_results |-> res, gpt_pc |-> "returned"]
  ELSE LET r == IF replies[1].fault # "none"
                THEN OnTransportFault(res)
                ELSE OnContent(res, its[1].tender.number, replies[1].content)
       IN  IF r.gpt_pc = "raised" THEN r
           ELSE GptLoop(Tail(its), Tail(replies), r.gpt_results)

ask_gpt_about_tenders(key, its, replies) ==
  IF key = <<>> THEN [gpt_results |-> <<>>, gpt_pc |-> "returned"]
  ELSE GptLoop(its, replies, <<>>)

\* good_reasons[code] = reason
ReasonSet(d, code, reason) ==
  IF \E i \in 1..Len(d) : d[i].code = code
  THEN [i \in 1..Len(d) |-> IF d[i].code = code THEN [code |-> code, reason |-> reason]
                                                ELSE d[i]]
  ELSE Append(d, [code |-> code, reason |-> reason])

\* good_reasons.get(code, "")
ReasonGet(d, code) ==
  IF \E i \in 1..Len(d) : d[i].code = code
  THEN (CHOOSE x \in {d[i] : i \in 1..Len(d)} : x.code = code).reason
  ELSE <<>>

\* {r.code for r in gpt_results if r.is_match}
GoodCodes(res) == {res[i].code : i \in {j \in 1..Len(res) : res[j].is_match}}

\* {r.code: r.reason for r in gpt_results if r.is_match}
RECURSIVE GoodReasons(_, _)
GoodReasons(res, d) ==
  IF res = <<>> THEN d
  ELSE GoodReasons(Tail(res),
                   IF res[1].is_match THEN ReasonSet(d, res[1].code, res[1].reason)
                   ELSE d)

\* [t for (t, _local) in local_items if t.number in good_codes], taken from
\* every candidate whatever its verdict
GoodTenders_All(its, codes) == [k \in 1..Len(its) |-> its[k].tender]

\* [t for (t, _local) in local_items if t.number in good_codes]
RECURSIVE GoodTenders(_, _)
GoodTenders(its, codes) ==
  IF its = <<>> THEN <<>>
  ELSE IF its[1].tender.number \in codes
       THEN <<its[1].tender>> \o GoodTenders(Tail(its), codes)
       ELSE GoodTenders(Tail(its), codes)

\* the counters of the statistics message
Stats(total, found, sent, answers, matched) ==
  [total_tenders |-> total, local_found |-> found, sent_to_gpt |-> sent,
   gpt_answers |-> answers, matched_count |-> matched]

\* the replies of the external service to one request of a run
RunReplies ==
  {[fault |-> "timeout", content |-> None],
   [fault |-> "none", content |-> None],
   [fault |-> "none", content |-> Some(<<"{\"is_match\": true, \"reason\": \" ok \"}">>)],
   [fault |-> "none", content |-> Some(<<"{\"is_match\": true, \"reason\": \"da\"}">>)],
   [fault |-> "none", content |-> Some(<<"{\"is_match\": false, \"reason\": \"no\"}">>)],
   [fault |-> "none", content |-> Some(<<"{}">>)]}

\* the replies of a run, a pattern that is repeated: every pattern of three
\* and two of four with both reasons, a negative verdict and a fault
ReplyPatterns ==
  (RunReplies \X RunReplies \X RunReplies) \cup
  {<<[fault |-> "none", content |-> Some(<<"{\"is_match\": true, \"reason\": \" ok \"}">>)],
     [fault |-> "none", content |-> Some(<<"{\"is_match\": false, \"reason\": \"no\"}">>)],
     [fault |-> "timeout", content |-> None],
     [fault |-> "none", content |-> Some(<<"{\"is_match\": true, \"reason\": \"da\"}">>)]>>,
   <<[fault |-> "none", content |-> Some(<<"{}">>)],
     [fault |-> "none", content |-> Some(<<"{\"is_match\": true, \"reason\": \"da\"}">>)],
     [fault |-> "none", content |-> Some(<<"{\"is_match\": true, \"reason\": \" ok \"}">>)],
     [fault |-> "none", content |-> Some(<<"{\"is_match\": false, \"reason\": \"no\"}">>)]>>}

\* rost_mce: "gpt_results = await to_thread(gpt_job)", "gpt_answers =
\* len(gpt_results)"; an exception of the call leaves rost_mce
RostMceAsk ==
  /\ run_pc = "selected"
  /\ \E key \in {<<>>, <<"k", "e", "y">>}, pat \in ReplyPatterns :
       \E r \in {ask_gpt_about_tenders(key, local_items,
                   [k \in 1..Len(local_items) |-> pat[((k - 1) % Len(pat)) + 1]])} :
         IF r.gpt_pc = "raised"
         THEN /\ run_pc' = "raised"
              /\ UNCHANGED <<rost_gpt_results, gpt_answers>>
         ELSE /\ run_pc' = "answered"
              /\ rost_gpt_results' = r.gpt_results
              /\ gpt_answers' = Len(r.gpt_results)
  /\ UNCHANGED <<tenders, local_items, local_found, sent_to_gpt, good_codes,
                 good_reasons, good_tenders, matched_count, stats, sent_messages,
                 nonrun>>

\* rost_mce: "if not gpt_results:", the statistics with 0 matches, return
RostMceNoAnswers ==
  /\ run_pc = "answered" /\ rost_gpt_results = <<>>
  /\ stats' = Some(Stats(Len(tenders), local_found, sent_to_gpt, gpt_answers, 0))
  /\ run_pc' = "returned"
  /\ UNCHANGED <<tenders, local_items, local_found, sent_to_gpt, rost_gpt_results,
                 gpt_answers, good_codes, good_reasons, good_tenders, matched_count,
                 sent_messages, nonrun>>

\* rost_mce: good_codes, good_reasons, good_tenders, matched_count, the
\* statistics; "if not good_tenders: ... return"
RostMceReport ==
  /\ run_pc = "answered" /\ rost_gpt_results # <<>>
  /\ good_codes' = GoodCodes(rost_gpt_results)
  /\ good_reasons' = GoodReasons(rost_gpt_results, <<>>)
  /\ \E good \in {GoodTenders(local_items, GoodCodes(rost_gpt_results))} :
       /\ good_tenders' = good
       /\ matched_count' = Len(good)
       /\ stats' = Some(Stats(Len(tenders), local_found, sent_to_gpt, gpt_answers,
                              Len(good)))
       /\ run_pc' = IF good = <<>> THEN "returned" ELSE "sending"
  /\ UNCHANGED <<tenders, local_items, local_found, sent_to_gpt, rost_gpt_results,
                 gpt_answers, sent_messages, nonrun>>

\* rost_mce: "for t in good_tenders:", one message per Tender with
\* good_reasons.get(t.number, "")
RostMceSend ==
  /\ run_pc = "sending"
  /\ sent_messages' =
       [k \in 1..Len(good_tenders) |->
          [tender |-> good_tenders[k],
           reason |-> ReasonGet(good_reasons, good_tenders[k].number)]]
  /\ run_pc' = "returned"
  /\ UNCHANGED <<tenders, local_items, local_found, sent_to_gpt, rost_gpt_results,
                 gpt_answers, good_codes, good_reasons, good_tenders, matched_count,
                 stats, nonrun>>

SelectorNext ==
  \/ RostMceNothing
  \/ RostMceSelect
  \/ RostMceAsk
  \/ RostMceNoAnswers
  \/ RostMceReport
  \/ RostMceSend

SpecSelector == SelectorInit /\ [][SelectorNext]_vars


-----------------------------------------------------------------------------
(* Field extractor: the fields of one block                                *)

\* the lines one block body is made of
MaxLines == 3

\* the deadline label alone, with a date and a time, with a value that is no date
L_END == END_LABEL
L_END_DT ==
  END_LABEL \o <<" ", "0", "5", ".", "1", "1", ".", "2", "0", "2", "6", " ", "1", "0", ":", "3", "0">>
L_END_BAD == END_LABEL \o <<" ", "s", "k", "o", "r", "o">>

\* a date alone; a date with a one-digit day and month; the 31st of February
\* with a time
L_DATE == <<"0", "6", ".", "1", "1", ".", "2", "0", "2", "6">>
L_DATE_SHORT == <<"7", ".", "1", ".", "2", "0", "2", "6">>
L_BADDATE == <<"3", "1", ".", "0", "2", ".", "2", "0", "2", "6", " ", "0", "9", ":", "0", "0">>

\* "g. Lobnya" with blanks around it
L_CITY == <<" ", "g", ".", " ", "L", "o", "b", "n", "ya", "\t">>

\* the price label; "1 250 000 RUB"; the dash; digits without the currency
\* marker; the marker without a digit
L_PRICE_LABEL == PRICE_LABEL
L_PRICE == <<"1", " ", "2", "5", "0", " ", "0", "0", "0", " ", "RUB">>
L_DASH == <<"mdash">>
L_NO_MARK == <<"1", " ", "2", "5", "0">>
L_RUB == <<"RUB">>

\* a line of blanks
L_BLANK == <<" ", " ">>

BodyLines ==
  {L_END, L_END_DT, L_END_BAD, L_DATE, L_DATE_SHORT, L_BADDATE, L_CITY, L_PRICE_LABEL, L_PRICE,
   L_DASH, L_NO_MARK, L_RUB, L_BLANK}

\* the bodies of at most maxlen lines that have a line left after
\* _cleanup_lines: a block without one is skipped before its fields are read
BlockBodies(maxlen) ==
  {b \in {JoinLines(ls) : ls \in UNION {[1..n -> BodyLines] : n \in 1..maxlen}} :
     _cleanup_lines(b) # <<>>}

ExtractorInit ==
  /\ block_body \in BlockBodies(MaxLines)
  /\ fields = None
  /\ IdleBut("extractor")

\* lines = _cleanup_lines(body) and the Tender built from them
ExtractFields ==
  /\ fields = None
  /\ fields' = Some(Tender("rostender", <<"9">>, TODAY, block_body, _cleanup_lines(block_body)))
  /\ UNCHANGED <<block_body, nonex>>

ExtractorNext == ExtractFields

SpecExtractor == ExtractorInit /\ [][ExtractorNext]_vars
-----------------------------------------------------------------------------
(* Settings: config_store                                                  *)

\* what config.json may hold: no file, text that is not JSON, a file that is
\* being written, or a JSON document, kept as the value json.load builds
\* (json.dump followed by json.load gives back the ints, strings, lists and
\* dicts the setters store)
FileAbsent == [kind |-> "absent"]
FileText == [kind |-> "text"]
FilePartial == [kind |-> "partial"]
FileJson(v) == [kind |-> "json", value |-> v]

\* the keys of DEFAULT_CONFIG the collector run reads (rostender_filter_url,
\* gpt_filter_text and exclude_keywords are handled like city and keywords)
DEFAULT_CONFIG ==
  [keywords |-> JList(<<>>), city |-> JStr(<<>>), search_days |-> JNum(3),
   max_pages |-> JNum(2)]

\* dict.update(data) for what json.load can return: the members of a dict,
\* nothing for an empty list or an empty string, an exception otherwise
\* (lists of pairs are not modelled)
DictUpdate(cfg, data) ==
  CASE data.type = "object" -> [raised |-> FALSE, cfg |-> data.members @@ cfg]
    [] data.type = "list" /\ data.elems = <<>> -> [raised |-> FALSE, cfg |-> cfg]
    [] data.type = "string" /\ data.str = <<>> -> [raised |-> FALSE, cfg |-> cfg]
    [] OTHER -> [raised |-> TRUE, cfg |-> cfg]

\* _read_config_raw: the defaults for a missing or unreadable file, else the
\* defaults updated with the document; [raised, cfg]
_read_config_raw(file) ==
  IF file.kind # "json" THEN [raised |-> FALSE, cfg |-> DEFAULT_CONFIG]
  ELSE DictUpdate(DEFAULT_CONFIG, file.value)

\* int(s) for a string: white space around, a sign, decimal digits (digit
\* separators are not modelled); None when it raises
StrInt(s) ==
  LET t == Strip(s)
      body == IF t # <<>> /\ t[1] \in {"+", "-"} THEN Tail(t) ELSE t
  IN  IF body # <<>> /\ AllDigits(body)
      THEN Some(IF t[1] = "-" THEN 0 - IntOf(body) ELSE IntOf(body))
      ELSE None

\* int(value) for a JSON value; None when it raises
PyInt(v) ==
  CASE v.type = "number" -> Some(v.num)
    [] v.type = "bool" -> Some(IF v.bool THEN 1 ELSE 0)
    [] v.type = "string" -> StrInt(v.str)
    [] OTHER -> None

\* "if x < 1: x = 1" and "if x > hi: x = hi"
Clamp(x, hi) == IF x < 1 THEN 1 ELSE IF x > hi THEN hi ELSE x

\* "try: int(value) except: default", then the clamp to 1..hi
IntOrDefault(value, default, hi) ==
  IF PyInt(value) = None THEN Clamp(default, hi) ELSE Clamp(PyInt(value)[1], hi)

\* cfg.get(key, default)
CfgGet(cfg, key, default) == IF key \in DOMAIN cfg THEN cfg[key] ELSE default

\* cfg[key] = value
CfgSet(cfg, key, value) == (key :> value) @@ cfg

\* the calls: [name, arg]; the key a setter writes, the value it stores, and
\* what a getter returns from cfg
IsSetter(call) == call.name \in {"set_search_days", "set_max_pages", "set_keywords", "set_city"}

KeyOf(call) ==
  CASE call.name \in {"set_search_days", "get_search_days"} -> "search_days"
    [] call.name \in {"set_max_pages", "get_max_pages"} -> "max_pages"
    [] call.name = "set_keywords" -> "keywords"
    [] call.name = "set_city" -> "city"

\* [str(w).strip() for w in (words or []) if str(w).strip()]
CleanWords(words) == JList(SelectNonEmpty([i \in 1..Len(words) |-> Strip(words[i])]))

StoredValue(call) ==
  CASE call.name = "set_search_days" -> JNum(IntOrDefault(call.arg, 3, 30))
    [] call.name = "set_max_pages" -> JNum(IntOrDefault(call.arg, 2, 10))
    [] call.name = "set_keywords" -> CleanWords(call.arg)
    [] call.name = "set_city" -> JStr(Strip(call.arg))

Returned(call, cfg) ==
  CASE call.name = "get_search_days" ->
         IntOrDefault(CfgGet(cfg, "search_days", DEFAULT_CONFIG.search_days), 3, 30)
    [] call.name = "get_max_pages" ->
         IntOrDefault(CfgGet(cfg, "max_pages", DEFAULT_CONFIG.max_pages), 2, 10)

\* a whole call on a file nobody else touches: [raised, file, ret]
CallOn(file, call) ==
  LET r == _read_config_raw(file)
  IN  IF r.raised THEN [raised |-> TRUE, file |-> file, ret |-> None]
      ELSE IF IsSetter(call)
      THEN [raised |-> FALSE,
            file |-> FileJson(JObj(CfgSet(r.cfg, KeyOf(call), StoredValue(call)))),
            ret |-> None]
      ELSE [raised |-> FALSE, file |-> file, ret |-> Some(Returned(call, r.cfg))]

\* str.split(): the words between runs of white space
RECURSIVE SplitWords(_)
SplitWords(s) ==
  LET t == LStrip(s)
      k == FirstIndex({i \in 1..Len(t) : IsSpace(t[i])})
  IN  IF t = <<>> THEN <<>>
      ELSE IF k = 0 THEN <<t>>
      ELSE <<SubSeq(t, 1, k - 1)>> \o SplitWords(SubSeq(t, k + 1, Len(t)))

\* text_router, mode "period": the three early returns, pages from the
\* message or from get_max_pages(), the two setters, awaiting = None; an
\* exception of a config_store call leaves the handler.
\* [file, awaiting, raised, stored]
RouterPeriod(file, txt) ==
  LET parts == SplitWords(txt)
      d == IF parts = <<>> THEN None ELSE StrInt(parts[1])
      g == CallOn(file, [name |-> "get_max_pages", arg |-> JNull])
      p == IF Len(parts) >= 2 THEN StrInt(parts[2]) ELSE g.ret
      s1 == CallOn(file, [name |-> "set_search_days", arg |-> JNum(d[1])])
      s2 == CallOn(s1.file, [name |-> "set_max_pages", arg |-> JNum(p[1])])
  IN  IF parts = <<>> \/ d = None \/ (Len(parts) >= 2 /\ p = None)
      THEN [file |-> file, awaiting |-> Some("period"), raised |-> FALSE, stored |-> FALSE]
      ELSE IF (Len(parts) < 2 /\ g.raised) \/ s1.raised
      THEN [file |-> file, awaiting |-> Some("period"), raised |-> TRUE, stored |-> FALSE]
      ELSE [file |-> s2.file, awaiting |-> None, raised |-> FALSE, stored |-> TRUE]

-----------------------------------------------------------------------------
(* Settings: inputs of the model                                           *)

\* calls the threads may make in all, messages the handler may get
MaxCalls == 3
MaxMessages == 1

Threads == {"t1", "t2"}

W_X == <<"x">>
W_A == <<" ", "a", " ">>
W_M == <<"m", " ">>

\* the settings files a run may start with
InitialFiles ==
  {FileAbsent, FileText,
   FileJson(JNull), FileJson(JList(<<JNum(1)>>)), FileJson(JList(<<>>)),
   FileJson(JObj([search_days |-> JNum(77), max_pages |-> JNum(0 - 4)])),
   FileJson(JObj([search_days |-> JStr(W_X), max_pages |-> JNull])),
   FileJson(JObj([search_days |-> JStr(<<"1", "2">>), max_pages |-> JNum(0), city |-> JStr(<<"m">>)])),
   FileJson(JObj([search_days |-> JBool(TRUE), max_pages |-> JList(<<>>),
                  keywords |-> JList(<<JStr(<<"b">>)>>)]))}

\* the calls of each thread: the two threads set different keys
CallsOf(t) ==
  IF t = "t1"
  THEN {[name |-> "set_keywords", arg |-> <<W_A, <<" ">>>>],
        [name |-> "set_search_days", arg |-> JNum(31)],
        [name |-> "set_search_days", arg |-> JStr(W_X)],
        [name |-> "get_search_days", arg |-> JNull]}
  ELSE {[name |-> "set_city", arg |-> W_M],
        [name |-> "set_max_pages", arg |-> JNum(0)],
        [name |-> "get_max_pages", arg |-> JNull]}

\* message texts, as text_router strips them
Texts ==
  {<<>>, W_X, <<"5">>, <<"-", "3">>, <<"5", " ", "x">>, <<"4", "0", " ", " ", "1", "1">>}

SettingKeys == {"keywords", "city", "search_days", "max_pages"}

-----------------------------------------------------------------------------
(* Settings: the calls of config_store, step by step, and text_router      *)

\* how a call ended: it has not, it raised, or it returned a value (0 for the
\* None of a setter)
NoReturn == [status |-> "none", value |-> 0]
Raised == [status |-> "raised", value |-> 0]
Value(n) == [status |-> "returned", value |-> n]

ConfigInit ==
  /\ config_json \in InitialFiles
  /\ tmp_json = FileAbsent
  /\ _lock = None
  /\ th_call = [t \in Threads |-> None]
  /\ th_pc = [t \in Threads |-> "idle"]
  /\ th_cfg = [t \in Threads |-> <<>>]
  /\ th_ret = [t \in Threads |-> NoReturn]
  /\ ncalls = 0
  /\ awaiting = None /\ nmsgs = 0 /\ router_txt = None /\ contended = FALSE
  /\ last_set = [k \in SettingKeys |-> None]
  /\ IdleBut("config")

\* a thread calls a function of config_store; the setters prepare their
\* value before they take the lock
Call(t) ==
  /\ th_pc[t] = "idle" /\ ncalls < MaxCalls
  /\ \E call \in CallsOf(t) : th_call' = [th_call EXCEPT ![t] = Some(call)]
  /\ th_pc' = [th_pc EXCEPT ![t] = "called"]
  /\ th_ret' = [th_ret EXCEPT ![t] = NoReturn]
  /\ ncalls' = ncalls + 1
  /\ contended' = (contended \/ _lock # None)
  /\ UNCHANGED <<config_json, tmp_json, _lock, th_cfg, awaiting, nmsgs, router_txt,
                 last_set, noncf>>

\* "with _lock:" entered without waiting for the lock
Acquire_NoWait(t) ==
  /\ th_pc[t] = "called"
  /\ _lock' = Some(t)
  /\ th_pc' = [th_pc EXCEPT ![t] = "locked"]
  /\ UNCHANGED <<config_json, tmp_json, th_call, th_cfg, th_ret, ncalls, awaiting, nmsgs,
                 router_txt, last_set, contended, noncf>>

\* "with _lock:"
Acquire(t) ==
  /\ th_pc[t] = "called" /\ _lock = None
  /\ _lock' = Some(t)
  /\ th_pc' = [th_pc EXCEPT ![t] = "locked"]
  /\ UNCHANGED <<config_json, tmp_json, th_call, th_cfg, th_ret, ncalls, awaiting, nmsgs,
                 router_txt, last_set, contended, noncf>>

\* "cfg = _read_config_raw()": an exception leaves the with block and the
\* call; a getter leaves the with block and returns; a setter goes on with
\* cfg[key] = value
ReadRaw(t) ==
  /\ th_pc[t] = "locked"
  /\ \E r \in {_read_config_raw(config_json)} :
       IF r.raised
       THEN /\ _lock' = None
            /\ th_pc' = [th_pc EXCEPT ![t] = "idle"]
            /\ th_ret' = [th_ret EXCEPT ![t] = Raised]
            /\ UNCHANGED <<th_cfg, th_call>>
       ELSE IF IsSetter(th_call[t][1])
       THEN /\ th_cfg' = [th_cfg EXCEPT ![t] = CfgSet(r.cfg, KeyOf(th_call[t][1]),
                                                      StoredValue(th_call[t][1]))]
            /\ th_pc' = [th_pc EXCEPT ![t] = "read"]
            /\ UNCHANGED <<_lock, th_ret, th_call>>
       ELSE /\ _lock' = None
            /\ th_pc' = [th_pc EXCEPT ![t] = "idle"]
            /\ th_ret' = [th_ret EXCEPT ![t] = Value(Returned(th_call[t][1], r.cfg))]
            /\ UNCHANGED <<th_cfg, th_call>>
  /\ UNCHANGED <<config_json, tmp_json, ncalls, awaiting, nmsgs, router_txt, last_set,
                 contended, noncf>>

\* _write_config_raw: open(tmp_path, "w")
OpenTmp(t) ==
  /\ th_pc[t] = "read"
  /\ tmp_json' = FilePartial
  /\ th_pc' = [th_pc EXCEPT ![t] = "opened"]
  /\ UNCHANGED <<config_json, _lock, th_call, th_cfg, th_ret, ncalls, awaiting, nmsgs,
                 router_txt, last_set, contended, noncf>>

\* _write_config_raw: json.dump(cfg, f) and the end of the with block
DumpTmp(t) ==
  /\ th_pc[t] = "opened"
  /\ tmp_json' = FileJson(JObj(th_cfg[t]))
  /\ th_pc' = [th_pc EXCEPT ![t] = "dumped"]
  /\ UNCHANGED <<config_json, _lock, th_call, th_cfg, th_ret, ncalls, awaiting, nmsgs,
                 router_txt, last_set, contended, noncf>>

\* _write_config_raw: os.replace(tmp_path, CONFIG_PATH)
Replace(t) ==
  /\ th_pc[t] = "dumped"
  /\ config_json' = tmp_json
  /\ tmp_json' = FileAbsent
  /\ th_pc' = [th_pc EXCEPT ![t] = "replaced"]
  /\ UNCHANGED <<_lock, th_call, th_cfg, th_ret, ncalls, awaiting, nmsgs, router_txt,
                 last_set, contended, noncf>>

\* the end of the setter's with block: the lock is released, the call returns
Release(t) ==
  /\ th_pc[t] = "replaced"
  /\ _lock' = None
  /\ th_pc' = [th_pc EXCEPT ![t] = "idle"]
  /\ th_ret' = [th_ret EXCEPT ![t] = Value(0)]
  /\ last_set' = [last_set EXCEPT ![KeyOf(th_call[t][1])] = Some(StoredValue(th_call[t][1]))]
  /\ UNCHANGED <<config_json, tmp_json, th_call, th_cfg, ncalls, awaiting, nmsgs, router_txt,
                 contended, noncf>>

\* callbacks: the button that asks for the search period
AskPeriod ==
  /\ nmsgs < MaxMessages /\ awaiting = None
  /\ awaiting' = Some("period")
  /\ UNCHANGED <<config_json, tmp_json, _lock, thvars, nmsgs, router_txt, last_set, contended, noncf>>

\* text_router on one message, run by the event loop while no thread is
\* inside a with block: "if not mode" replies only, mode "period" is
\* RouterPeriod
TextRouter ==
  /\ nmsgs < MaxMessages /\ _lock = None
  /\ \E txt \in Texts :
       /\ router_txt' = Some(txt)
       /\ IF awaiting = None
          THEN UNCHANGED <<config_json, awaiting, last_set>>
          ELSE \E r \in {RouterPeriod(config_json, txt)} :
                 /\ config_json' = r.file
                 /\ awaiting' = r.awaiting
                 /\ last_set' = IF r.stored
                                THEN [last_set EXCEPT
                                        !["search_days"] = Some(r.file.value.members.search_days),
                                        !["max_pages"] = Some(r.file.value.members.max_pages)]
                                ELSE last_set
  /\ nmsgs' = nmsgs + 1
  /\ UNCHANGED <<tmp_json, _lock, thvars, contended, noncf>>

ConfigNext ==
  \/ \E t \in Threads : Call(t)
  \/ \E t \in Threads : Acquire(t)
  \/ \E t \in Threads : ReadRaw(t)
  \/ \E t \in Threads : OpenTmp(t)
  \/ \E t \in Threads : DumpTmp(t)
  \/ \E t \in Threads : Replace(t)
  \/ \E t \in Threads : Release(t)
  \/ AskPeriod
  \/ TextRouter

SpecConfig == ConfigInit /\ [][ConfigNext]_vars


-----------------------------------------------------------------------------
(* Claims about the collector                                              *)

\* the fields of a Tender that the block loop sets (detail_text comes later)
SameListing(t, u) == [t EXCEPT !.detail_text = None] = [u EXCEPT !.detail_text = None]

\* s <= t in Python's order on strings, stated position by position
LexLeq(s, t) ==
  \/ Len(s) <= Len(t) /\ \A i \in 1..Len(s) : s[i] = t[i]
  \/ \E k \in 1..Len(s) :
       /\ k <= Len(t)
       /\ \A i \in 1..(k - 1) : s[i] = t[i]
       /\ DigitVal(s[k]) < DigitVal(t[k])

\* C1 as stated: every Tender of the final output comes from the first
\* occurrence of its id in page-then-source order.  (A Tender whose id had
\* occurred before it was built differs from the first occurrence in its
\* publish date or its body, since an identical block would have been accepted.)
C1_FirstOccurrenceWins ==
  pc = "done" => \A i \in 1..Len(results) : results[i].number \notin late

\* C1, amended: the final output holds at most one Tender per id; a Tender is
\* put into the dedup map only for an id the map does not hold yet, so it is
\* that of the first occurrence that passed the collector's tests (parseable
\* date, within the window, a non-blank line, the basic filters); once in the
\* map it is never overwritten, replaced or removed, and the output holds
\* exactly the Tenders of the map with the fields the block loop gave them.
C1_FirstAcceptedWins ==
  /\ [](\A i, j \in 1..Len(tenders_by_number) :
          tenders_by_number[i].number = tenders_by_number[j].number => i = j)
  /\ [](pc = "done" =>
          /\ Len(results) = Len(tenders_by_number)
          /\ \A i, j \in 1..Len(results) : results[i].number = results[j].number => i = j
          /\ \A i \in 1..Len(results) : \E j \in 1..Len(tenders_by_number) :
               SameListing(results[i], tenders_by_number[j]))
  /\ [][/\ Len(tenders_by_number') >= Len(tenders_by_number)
        /\ \A i \in 1..Len(tenders_by_number) :
             tenders_by_number'[i] = tenders_by_number[i]
        /\ \A i \in (Len(tenders_by_number) + 1)..Len(tenders_by_number') :
             tenders_by_number'[i].number \notin Keys(tenders_by_number)]_vars

\* C1 witness: a block repeating a collected id was dropped by the dedup test,
\* after which the run returned that id's Tender
C1_Witness ==
  /\ pc = "done" /\ "dup" \in outcomes /\ results # <<>>
  /\ Len(requested) >= 2

\* C2: when the block loop of a page ends, the collector goes on to the next
\* page number exactly when the page added at least one Tender to the dedup map
\* and stops otherwise; the next page is requested only within the page cap;
\* once stopped, no page is requested any more.
C2_Continuation ==
  /\ [][(pc = "blocks" /\ pc' # "blocks") =>
          /\ (pc' = "top" /\ page' = page + 1)
               <=> Len(tenders_by_number) > size_at_fetch
          /\ pc' = "collected" <=> Len(tenders_by_number) = size_at_fetch]_vars
  /\ [][requested' # requested =>
          /\ pc = "top" /\ requested' = Append(requested, page)
          /\ max_pages # None => page <= max_pages[1]]_vars
  /\ [][(pc \in {"collected", "done", "raised"}) => requested' = requested]_vars

\* C2 witness: page 2 yielded blocks but no new Tender, and the collector
\* stopped although the cap allowed a third page
C2_Witness ==
  /\ pc = "collected" /\ requested = <<1, 2>> /\ nblocks > 0
  /\ Len(tenders_by_number) = size_at_fetch /\ size_at_fetch > 0
  /\ max_pages = None

\* C3: the returned list is non-increasing in (published, number), the number
\* compared as a string.
C3_Sorted ==
  pc = "done" =>
    \A i \in 1..(Len(results) - 1) :
      \/ results[i].published > results[i + 1].published
      \/ /\ results[i].published = results[i + 1].published
         /\ LexLeq(results[i + 1].number, results[i].number)

\* C3 witness: two Tenders of one day were collected as "10" then "9" and are
\* returned as "9" then "10", after an enrichment that filled one of them
C3_Witness ==
  /\ pc = "done" /\ Len(results) = 2
  /\ results[1].published = results[2].published
  /\ results[1].number = <<"9">> /\ results[2].number = <<"1", "0">>
  /\ tenders_by_number[1].number = <<"1", "0">>
  /\ results[1].detail_text # None /\ results[2].detail_text = None

\* C4: every Tender of the dedup map and of the output was published on or
\* after the cutoff, today minus the day-window.
C4_Window ==
  /\ \A i \in 1..Len(tenders_by_number) : tenders_by_number[i].published >= TODAY - days
  /\ \A i \in 1..Len(results) : results[i].published >= TODAY - days

\* C4 witness: a block older than the cutoff was processed in a run that
\* returned Tenders
C4_Witness == pc = "done" /\ "old" \in outcomes /\ results # <<>>

\* C12: the pages requested so far are 1, 2, ..., n in this order, n within
\* the page cap when one is given; a page is requested only at the top of the
\* page loop, one at a time, never while the blocks of a page are being
\* processed; and the dedup map changes only in the block loop of the page
\* requested last.
C12_PagesInOrder ==
  /\ [](\A i \in 1..Len(requested) : requested[i] = i)
  /\ [](max_pages # None => Len(requested) <= max_pages[1])
  /\ [][requested' # requested =>
          /\ pc = "top" /\ pc' = "blocks"
          /\ requested' = Append(requested, Len(requested) + 1)]_vars
  /\ [][tenders_by_number' # tenders_by_number =>
          /\ pc = "blocks" /\ requested' = requested
          /\ page = requested[Len(requested)]]_vars

\* C12 witness: with a cap of two pages both were requested, each added a
\* Tender, and the loop ended at the cap
C12_Witness ==
  /\ pc = "collected" /\ max_pages = <<2>> /\ requested = <<1, 2>> /\ page = 3
  /\ Len(tenders_by_number) = 2 /\ variant \in {"catalog", "filtered"}

\* what the block loop of the running collector does with block b
BlockResult(b) ==
  IF variant = "catalog" THEN CatalogBlock(tenders_by_number, b, min_date)
  ELSE IF variant = "filtered"
  THEN FilteredBlock(tenders_by_number, b, min_date, include_words, exclude_words, city_filter)
  ELSE TemplateBlock(tenders_by_number, b, min_date)

\* 99.99.25, and a body without a non-blank line
BAD_DATE == <<"9", "9", ".", "9", "9", ".", "2", "5">>
NoLine(body) == \A i \in 1..Len(body) : IsSpace(body[i])

\* the blocks dated 99.99.25 and the blocks without a non-blank line
UnusableBlocks == {b \in Blocks : b.date = BAD_DATE \/ NoLine(b.body)}

\* C19: wherever the block loop stands, a block with the publish date 99.99.25
\* or without a non-blank line leaves the dedup map as it is and is not
\* counted as added; a step of the block loop that leaves the map as it is
\* leaves the page's counters as they are, and every step of the block loop
\* stays in the block loop, so the blocks after it are taken.
C19_SkippedAlone ==
  /\ [](pc = "blocks" =>
          \A b \in UnusableBlocks :
            LET r == BlockResult(b)
            IN  r.tbn = tenders_by_number /\ ~r.added)
  /\ [][nblocks' = nblocks + 1 =>
          /\ pc = "blocks" /\ pc' = "blocks"
          /\ tenders_by_number' = tenders_by_number =>
               /\ page_added_any' = page_added_any
               /\ added_this_page' = added_this_page]_vars

\* C19 witness: the first block of the page had the date 99.99.25 and was
\* skipped, the second block of the same page, with the same id, was collected
C19_Witness ==
  /\ pc = "blocks" /\ requested = <<1>> /\ nblocks = 2
  /\ outcomes = {"bad_date", "added"}
  /\ late # {} /\ Len(tenders_by_number) = 1

\* the Tender of the dedup map with the id of t
Collected(t) ==
  tenders_by_number[CHOOSE j \in 1..Len(tenders_by_number) :
                      tenders_by_number[j].number = t.number]

\* C20: with enrichment the output holds the Tenders of the dedup map, each
\* once, in the order the sort gives without enrichment; a Tender whose detail
\* page failed has no detail_text, every other one has the text of its detail
\* page, and nothing but detail_text differs from what was collected.
C20_EnrichmentKeepsOutput ==
  (pc = "done" /\ detail_ok # None) =>
    /\ Len(results) = Len(tenders_by_number)
    /\ {results[i].number : i \in 1..Len(results)} = Keys(tenders_by_number)
    /\ \A i \in 1..Len(results) :
         /\ SameListing(results[i], Collected(results[i]))
         /\ results[i].raw_block = Collected(results[i]).raw_block
         /\ results[i].detail_text =
              (IF results[i].number \in detail_ok[1] THEN <<DETAIL_PAGE>> ELSE None)
    /\ [i \in 1..Len(results) |-> [results[i] EXCEPT !.detail_text = None]]
         = SortDesc(tenders_by_number)
    /\ \A i \in 1..(Len(results) - 1) :
         \/ results[i].published > results[i + 1].published
         \/ /\ results[i].published = results[i + 1].published
            /\ LexLeq(results[i + 1].number, results[i].number)

\* C20 witness: the detail page of the Tender collected first failed, that of
\* the Tender collected second loaded; both are returned, in sorted order
C20_Witness ==
  /\ pc = "done" /\ Len(tenders_by_number) = 2 /\ Len(results) = 2
  /\ detail_ok = <<{tenders_by_number[2].number}>>
  /\ results[1].number = tenders_by_number[1].number
  /\ results[1].detail_text = None /\ results[1].raw_block = tenders_by_number[1].raw_block
  /\ results[2].detail_text = <<DETAIL_PAGE>>

\* the bodies a block of the source may have had, given the Tender made of it
BodiesOf(t) == {body \in Bodies : Strip(body) = t.raw_block}

\* the tests of the basic filters on one Tender and the body of its block
PassedBasicFilters(t, body) ==
  LET text == Lower(t.title \o <<"\n">> \o body)
  IN  /\ Contains(STAGE_YO, text) \/ Contains(STAGE_E, text)
      /\ include_words # <<>> =>
           \E i \in 1..Len(include_words) : Contains(include_words[i], text)
      /\ \A i \in 1..Len(exclude_words) : ~Contains(exclude_words[i], text)
      /\ city_filter # None =>
           \/ Contains(city_filter[1], Lower(OrEmpty(t.city)))
           \/ Contains(city_filter[1], Lower(OrEmpty(t.region)))
           \/ Contains(city_filter[1], text)

\* C23: every Tender in the dedup map and in the output of
\* fetch_rostender_tenders_filtered comes from a block that has the stage
\* phrase, an include word when the include list is not empty, no exclude
\* word and, when a city filter is set, the filter string in its lower-cased
\* city, region or text.
C23_PassedBasicFilters ==
  variant = "filtered" =>
    \A t \in {tenders_by_number[i] : i \in 1..Len(tenders_by_number)} \cup
            {results[i] : i \in 1..Len(results)} :
      /\ BodiesOf(t) # {}
      /\ \A body \in BodiesOf(t) : PassedBasicFilters(t, body)

\* C28: a call of fetch_rostender_tenders with max_pages = None eventually
\* stops requesting pages, by leaving the page loop or by raising, whatever
\* pages the source answers with: the source has finitely many tender ids,
\* and a page that adds no new Tender ends the loop.
C28_Terminates ==
  (variant = "catalog" /\ max_pages = None) ~> (pc \in {"collected", "done", "raised"})

\* an uncapped run that ended on its third page, a page of collected ids only
C28_Witness ==
  /\ variant = "catalog" /\ max_pages = None /\ pc = "done"
  /\ requested = <<1, 2, 3>>
  /\ Len(results) = Cardinality(Numbers)
  /\ "dup" \in outcomes
  /\ size_at_fetch = Len(tenders_by_number)

\* the uncapped run never asks for a page beyond the number of ids plus one
C28_PagesBounded ==
  (variant = "catalog" /\ max_pages = None) => page <= Cardinality(Numbers) + 1

\* C30: on every dedup map and cutoff a run of the template collector hands
\* to _parse_page_html, each block of a page has the same effect as in the
\* page loop of fetch_rostender_tenders (the same map with the same Tenders,
\* the same decision to add), and the count _parse_page_html keeps is the
\* number of Tenders the page has added to the map.
C30_SameAsCatalogPage ==
  (variant = "template" /\ pc = "blocks") =>
    /\ \A b \in Blocks :
         TemplateBlock(tenders_by_number, b, min_date)
           = CatalogBlock(tenders_by_number, b, min_date)
    /\ added_this_page = Len(tenders_by_number) - size_at_fetch

\* _parse_page_html at the end of the second page, whose two blocks were one
\* new Tender and one block that was skipped
C30_Witness ==
  /\ variant = "template" /\ pc = "blocks" /\ nblocks = 2
  /\ requested = <<1, 2>>
  /\ size_at_fetch = 1 /\ added_this_page = 1
  /\ Len(tenders_by_number) = 2
  /\ outcomes \cap {"dup", "old", "bad_date", "empty"} # {}

-----------------------------------------------------------------------------
(* Claims about the local classifier                                       *)

\* the normalised title+description analyze_tender works on
AnText == _norm(an_title \o <<" ">> \o an_description)

NegativeFound == _find_keywords(AnText, BAD_TOPICS) # {}
TopFound == _find_keywords(AnText, TOP_DIRECTIONS) # {}
SecondaryFound == _find_keywords(AnText, OTHER_DIRECTIONS) # {}

\* C5: whenever a negative phrase matches the normalised text the analysis is
\* not a local match, whatever top-priority and secondary phrases match too.
C5_NegativeDominates ==
  (analysis # None /\ NegativeFound) => ~analysis[1].is_local_match

\* C5 witness: a top-priority, a secondary and a negative phrase all match and
\* the analysis is a rejection
C5_Witness ==
  /\ analysis # None /\ NegativeFound /\ TopFound /\ SecondaryFound
  /\ ~analysis[1].is_local_match

\* C6: without a negative match the analysis is a local match of priority 1
\* when a top-priority phrase matched, else 2 when a secondary phrase matched,
\* else 0.
C6_Priority ==
  (analysis # None /\ ~NegativeFound) =>
    /\ analysis[1].is_local_match
    /\ analysis[1].priority_level =
         (IF TopFound THEN <<1>> ELSE IF SecondaryFound THEN <<2>> ELSE <<0>>)

\* C6 witness: a text with no configured phrase at all is a match of priority 0
C6_Witness ==
  /\ analysis # None /\ ~NegativeFound /\ ~TopFound /\ ~SecondaryFound
  /\ analysis[1].is_local_match /\ analysis[1].priority_level = <<0>>

\* C7: a text that is one secondary phrase alone is a local match of priority 2.
C7_SecondaryAlone ==
  (analysis # None /\ an_title \in OTHER_DIRECTIONS /\ an_description = <<>>) =>
    /\ analysis[1].is_local_match
    /\ analysis[1].priority_level = <<2>>

\* the phrase occurs in the text; the phrase occurs with no word character
\* next to it on either side
SubstringOf(kw, text) ==
  \E i \in 1..(Len(text) - Len(kw) + 1) : SubSeq(text, i, i + Len(kw) - 1) = kw
StandsAlone(kw, text) ==
  \E i \in 1..(Len(text) - Len(kw) + 1) :
    /\ SubSeq(text, i, i + Len(kw) - 1) = kw
    /\ (i = 1 \/ ~IsWordChar(text[i - 1]))
    /\ (i + Len(kw) > Len(text) \/ ~IsWordChar(text[i + Len(kw)]))

\* lower case, every run of white space one blank, a blank at each end
Normalised(text) ==
  /\ Len(text) >= 2 /\ text[1] = " " /\ text[Len(text)] = " "
  /\ \A i \in 1..Len(text) : LowerChar(text[i]) = text[i] /\ (IsSpace(text[i]) => text[i] = " ")
  /\ \A i \in 2..(Len(text) - 2) : ~(text[i] = " " /\ text[i + 1] = " ")

AllPhrases == TOP_DIRECTIONS \cup OTHER_DIRECTIONS \cup BAD_TOPICS
SIZ == <<"s", "i", "z">>

\* C14: the text searched is the normalised one, and a configured phrase is
\* reported exactly when it occurs in it as a substring (a phrase with a blank
\* or of four characters and more) or standing between word boundaries (a
\* single token of fewer than four characters); a short phrase that occurs
\* only inside a longer word is not reported.
C14_HitRule ==
  analysis # None =>
    /\ Normalised(AnText)
    /\ \A kw \in AllPhrases :
         (kw \in analysis[1].matched_keywords \cup analysis[1].negative_reasons)
           <=> (IF (\E i \in 1..Len(kw) : kw[i] = " ") \/ Len(kw) >= 4
                THEN SubstringOf(kw, AnText)
                ELSE StandsAlone(kw, AnText))

\* C14 witness: the short phrase occurs inside a longer word only and is not
\* reported, while a long phrase of the same text is
C14_Witness ==
  /\ analysis # None /\ an_title = T_SIZYJ /\ an_description = D_OTHER
  /\ SubstringOf(SIZ, AnText) /\ SIZ \in BAD_TOPICS
  /\ SIZ \notin analysis[1].negative_reasons
  /\ D_OTHER \in analysis[1].matched_keywords

\* C15: negative_reasons is non-empty exactly when is_local_match is false,
\* and a rejection has no priority level, the matched negative phrases as its
\* negative_reasons and the matched top-priority and secondary phrases as its
\* matched_keywords.
C15_RejectionShape ==
  analysis # None =>
    /\ (analysis[1].negative_reasons # {}) <=> ~analysis[1].is_local_match
    /\ ~analysis[1].is_local_match =>
         /\ analysis[1].priority_level = None
         /\ analysis[1].negative_reasons = _find_keywords(AnText, BAD_TOPICS)
         /\ analysis[1].matched_keywords =
              _find_keywords(AnText, TOP_DIRECTIONS) \cup _find_keywords(AnText, OTHER_DIRECTIONS)

\* C15 witness: a rejection that still lists a top-priority and a secondary
\* phrase among its matched_keywords
C15_Witness ==
  /\ analysis # None /\ an_description = D_MIX
  /\ ~analysis[1].is_local_match /\ analysis[1].priority_level = None
  /\ analysis[1].negative_reasons # {}
  /\ analysis[1].matched_keywords \cap TOP_DIRECTIONS # {}
  /\ analysis[1].matched_keywords \cap OTHER_DIRECTIONS # {}

-----------------------------------------------------------------------------
(* Claims about the escalation selector                                    *)

\* the LocalAnalysis of each collected Tender, in collected order
RunAnalyses == <<>> \o [i \in 1..Len(tenders) |-> LocalOf(tenders[i])]

Min(a, b) == IF a < b THEN a ELSE b

\* the Tender at i ranks no lower than the Tender at j by
\* (priority_level, published, number)
RankGeq(an, i, j) ==
  LET pi == an[i].priority_level[1]
      pj == an[j].priority_level[1]
  IN  \/ pi > pj
      \/ /\ pi = pj
         /\ \/ tenders[i].published > tenders[j].published
            \/ /\ tenders[i].published = tenders[j].published
               /\ LexLeq(tenders[j].number, tenders[i].number)

\* the position in the collected list of the k-th Tender of the selection
\* (0 if it is not a collected Tender)
PosOf(k) ==
  IF \E i \in 1..Len(tenders) : tenders[i] = local_items[k].tender
  THEN CHOOSE i \in 1..Len(tenders) : tenders[i] = local_items[k].tender
  ELSE 0

\* C8: when some Tender of the run is a local match, the selection holds only
\* matched Tenders with their analyses, is ordered non-increasing by
\* (priority_level, published, number), and is the first min(K, matched)
\* Tenders of that order, K = MAX_GPT_TENDERS.
C8_SelectionOfMatched ==
  run_pc = "selected" =>
    \A an \in {RunAnalyses} :
      LET matched == {i \in 1..Len(tenders) : an[i].is_local_match}
          chosen  == {PosOf(k) : k \in 1..Len(local_items)}
      IN  matched # {} =>
            /\ chosen \subseteq matched
            /\ \A k \in 1..Len(local_items) : local_items[k].local = Some(an[PosOf(k)])
            /\ Len(local_items) = Min(MAX_GPT_TENDERS, Cardinality(matched))
            /\ Cardinality(chosen) = Len(local_items)
            /\ sent_to_gpt = Len(local_items)
            /\ \A k \in 1..(Len(local_items) - 1) : RankGeq(an, PosOf(k), PosOf(k + 1))
            /\ \A i \in matched \ chosen : \A j \in chosen : RankGeq(an, j, i)

\* C8 witness: more than K Tenders match, K of them are selected, Tenders of
\* two priority levels are among them, and the best-ranked one is not the
\* first of the collected list
C8_Witness ==
  /\ run_pc = "selected"
  /\ local_found > MAX_GPT_TENDERS
  /\ Len(local_items) = MAX_GPT_TENDERS
  /\ local_items[1].local # None
  /\ local_items[1].local[1].priority_level # local_items[MAX_GPT_TENDERS].local[1].priority_level
  /\ local_items[1].tender # tenders[1]

\* C9: when no Tender of the run is a local match, the selection is the first
\* min(K, total) Tenders of the collected list in collected order, each with
\* no LocalAnalysis, and it is not empty when the collected list is not.
C9_Fallback ==
  run_pc = "selected" =>
    \A an \in {RunAnalyses} :
      (\A i \in 1..Len(tenders) : ~an[i].is_local_match) =>
        /\ Len(local_items) = Min(MAX_GPT_TENDERS, Len(tenders))
        /\ \A k \in 1..Len(local_items) :
             local_items[k] = [tender |-> tenders[k], local |-> None]
        /\ sent_to_gpt = Len(local_items)
        /\ tenders # <<>> => local_items # <<>>

\* C9 witness: more than K Tenders were collected, none matches, and the
\* first K of them are selected without analyses
C9_Witness ==
  /\ run_pc = "selected"
  /\ Len(tenders) > MAX_GPT_TENDERS
  /\ local_found = 0
  /\ Len(local_items) = MAX_GPT_TENDERS
  /\ \A k \in 1..Len(local_items) : local_items[k].local = None
  /\ local_items[1].tender = tenders[1]

\* C22: when more than K Tenders match locally, no Tender of priority level 1
\* is left out of the selection while a Tender of level 2 or 0 is in it.
C22_TopPriorityFirst ==
  (run_pc = "selected" /\ local_found > MAX_GPT_TENDERS) =>
    \A an \in {RunAnalyses} :
      LET chosen == {PosOf(k) : k \in 1..Len(local_items)}
          leftTop == {i \in 1..Len(tenders) :
                        /\ i \notin chosen
                        /\ an[i].is_local_match
                        /\ an[i].priority_level = <<1>>}
          lower == {i \in chosen : an[i].priority_level \in {<<2>>, <<0>>}}
      IN  leftTop = {} \/ lower = {}

\* C25: a Tender the local filter rejected is in the selection only in a run
\* where no Tender is a local match.
C25_RejectedOnlyInFallback ==
  run_pc = "selected" =>
    \A an \in {RunAnalyses} :
      (\E k \in 1..Len(local_items) : ~an[PosOf(k)].is_local_match) =>
        (\A i \in 1..Len(tenders) : ~an[i].is_local_match)

\* C25 witness: some Tenders match and others are rejected; fewer than K
\* match, and only they are selected
C25_Witness ==
  /\ run_pc = "selected"
  /\ local_found > 0 /\ local_found < Len(tenders) /\ local_found < MAX_GPT_TENDERS
  /\ Len(local_items) = local_found
  /\ \E i \in 1..Len(tenders) : ~LocalOf(tenders[i]).is_local_match
  /\ \A k \in 1..Len(local_items) : local_items[k].local # None

-----------------------------------------------------------------------------
(* Claims about the external classifier                                    *)

\* the codes with a verdict
VerdictCodes == {gpt_results[i].code : i \in 1..Len(gpt_results)}

\* the pass of the loop just taken ended in a transport fault
FaultStep ==
  /\ Len(gpt_log') = Len(gpt_log) + 1
  /\ gpt_log'[Len(gpt_log')].fault \in TransportFaults

\* C10: a transport fault for one candidate leaves the recorded verdicts as
\* they are and the loop running with the next candidate; no call ends in an
\* exception at a faulted candidate; and a call that returns has sent every
\* candidate in order, has no verdict for a faulted candidate, and never
\* dropped a verdict once recorded.
C10_FaultSkipsOneCandidate ==
  /\ [][FaultStep => /\ gpt_results' = gpt_results
                      /\ gpt_pc' = "loop"
                      /\ gpt_idx' = gpt_idx + 1]_vars
  /\ [][Len(gpt_results) <= Len(gpt_results')
        /\ SubSeq(gpt_results', 1, Len(gpt_results)) = gpt_results]_vars
  /\ [](gpt_pc = "raised" => gpt_log[Len(gpt_log)].fault = "none")
  /\ []((gpt_pc = "returned" /\ OPENAI_API_KEY # <<>>) =>
          /\ Len(gpt_log) = Len(items)
          /\ \A i \in 1..Len(items) : gpt_log[i].code = items[i].tender.number
          /\ \A i \in 1..Len(gpt_log) :
               gpt_log[i].fault \in TransportFaults => gpt_log[i].code \notin VerdictCodes)

\* C10 witness: the call has returned; a candidate with a verdict was followed
\* by a faulted candidate and that one by a candidate with a verdict
C10_Witness ==
  /\ gpt_pc = "returned"
  /\ \E i, j, k \in 1..Len(gpt_log) :
       /\ i < j /\ j < k
       /\ gpt_log[i].code \in VerdictCodes
       /\ gpt_log[j].fault \in TransportFaults
       /\ gpt_log[j].code \notin VerdictCodes
       /\ gpt_log[k].code \in VerdictCodes

\* a reply content that is text but not the expected structured reply: it is
\* not one JSON document once the code fence is stripped, or the document is
\* not an object with an is_match member
NotStructured(content) ==
  /\ content # None
  /\ LET v == _parse_gpt_json(content[1])
     IN  v.type # "object" \/ "is_match" \notin DOMAIN v.members

\* C11: a candidate whose reply content is not the expected structured reply
\* gets no verdict, the call does not end in an exception at that candidate,
\* and a call that returns has gone through all the candidates.
C11_MalformedReplySkipped ==
  \A i \in 1..Len(gpt_log) :
    NotStructured(gpt_log[i].content) =>
      /\ gpt_log[i].code \notin VerdictCodes
      /\ ~(gpt_pc = "raised" /\ i = Len(gpt_log))
      /\ gpt_pc = "returned" => Len(gpt_log) = Len(items)

-----------------------------------------------------------------------------
(* Claims about the block segmenter                                        *)

\* the positions of the well-formed markers of a text, in source order
MarkerStarts(s) == {i \in 1..Len(s) : MarkerAt(s, i).ok}
NthMarker(s, k) == CHOOSE i \in MarkerStarts(s) : Cardinality({j \in MarkerStarts(s) : j < i}) = k - 1

\* C13: a page text with N well-formed markers yields exactly N blocks in
\* source order, the k-th block carrying the number and the date of the k-th
\* marker, and no yielded body contains a marker; with no marker the result
\* is empty.
C13_OneBlockPerMarker ==
  yielded # None =>
    LET ys == yielded[1]
        N == Cardinality(MarkerStarts(full_text))
    IN  /\ Len(ys) = N
        /\ \A k \in 1..Len(ys) :
             /\ k <= N
             /\ LET m == MarkerAt(full_text, NthMarker(full_text, k))
                IN  ys[k].number = m.number /\ ys[k].date = m.date
             /\ MarkerStarts(ys[k].body) = {}

C13_Witness ==
  /\ full_text = PIECE_MARKER \o PIECE_BODY \o PIECE_HEAD_ONLY \o PIECE_MARKER_WS
  /\ yielded # None
  /\ Len(yielded[1]) = 2
  /\ yielded[1][1] = [number |-> <<"9">>, date |-> <<"0", "2", ".", "1", "1", ".", "2", "6">>, body |-> PIECE_BODY]
  /\ yielded[1][2].number = <<"1", "0">> /\ yielded[1][2].body = <<>>

-----------------------------------------------------------------------------
(* Claims about the field extractor                                        *)

\* the lines the fields are read from
Lines == _cleanup_lines(block_body)

\* the first line equal to the price label that has a line after it, and the
\* first line that starts with the deadline label; 0 when there is none
PriceLabelLine ==
  LET S == {i \in 1..(Len(Lines) - 1) : Lines[i] = PRICE_LABEL}
  IN  IF S = {} THEN 0 ELSE CHOOSE i \in S : \A j \in S : i <= j
EndLabelLine ==
  LET S == {i \in 1..Len(Lines) :
              Len(Lines[i]) >= Len(END_LABEL) /\ SubSeq(Lines[i], 1, Len(END_LABEL)) = END_LABEL}
  IN  IF S = {} THEN 0 ELSE CHOOSE i \in S : \A j \in S : i <= j

\* the number written by the digits of a string, read from the left
RECURSIVE DigitsNumber(_, _)
DigitsNumber(s, acc) ==
  IF s = <<>> THEN acc
  ELSE DigitsNumber(Tail(s), IF Head(s) \in Digits THEN 10 * acc + DigitVal(Head(s)) ELSE acc)

\* C16: price_raw is the line after the line equal to the price label; price
\* is the integer of its digits when it holds the currency marker and a digit,
\* and None otherwise with price_raw kept; without a label line both are None.
C16_Price ==
  fields # None =>
    LET i == PriceLabelLine
        raw == Lines[i + 1]
        marker == \E k \in 1..Len(raw) : raw[k] = "RUB"
        digit == \E k \in 1..Len(raw) : raw[k] \in Digits
    IN  /\ i = 0 => fields[1].price = None /\ fields[1].price_raw = None
        /\ i # 0 =>
             /\ fields[1].price_raw = <<raw>>
             /\ fields[1].price = (IF marker /\ digit THEN <<DigitsNumber(raw, 0)>> ELSE None)
             /\ raw = L_PRICE => fields[1].price = <<1250000>>
             /\ raw = L_DASH => fields[1].price = None

\* C16 witness: "1 250 000 RUB" after the label gives 1250000
C16_Witness ==
  /\ fields # None
  /\ block_body = JoinLines(<<L_CITY, L_PRICE_LABEL, L_PRICE>>)
  /\ fields[1].price = <<1250000>> /\ fields[1].price_raw = <<L_PRICE>>

\* the deadline value: the rest of the label line, or the line after it when
\* the rest is empty
EndValue ==
  LET i == EndLabelLine
      rest == Strip(SubSeq(Lines[i], Len(END_LABEL) + 1, Len(Lines[i])))
  IN  IF rest = <<>> /\ i + 1 <= Len(Lines) THEN Lines[i + 1] ELSE rest

\* what the values of the model mean: day.month.year with a time, a date
\* alone, and nothing for every other value
Meaning(v) ==
  IF v = <<"0", "5", ".", "1", "1", ".", "2", "0", "2", "6", " ", "1", "0", ":", "3", "0">>
  THEN <<(<<ToOrdinal(2026, 11, 5), 10 * 60 + 30>>)>>
  ELSE IF v = L_DATE THEN <<(<<ToOrdinal(2026, 11, 6), 0>>)>>
  ELSE IF v = L_DATE_SHORT THEN <<(<<ToOrdinal(2026, 1, 7), 0>>)>>
  ELSE None

\* C17: the deadline is read at the first line that starts with the deadline
\* label, from the rest of that line or from the next line when the rest is
\* empty; a date with a time gives that timestamp, a date alone gives midnight
\* of that date, every other value and a missing label line give no deadline,
\* and the Tender is built in every case.
C17_Deadline ==
  fields # None =>
    /\ fields[1].title = Lines[1]
    /\ fields[1].end_datetime = (IF EndLabelLine = 0 THEN None ELSE Meaning(EndValue))

\* C17 witness: a bare label, then a value that is no date: no deadline, and
\* the Tender is there
C17_Witness ==
  /\ fields # None
  /\ block_body = JoinLines(<<L_CITY, L_END, L_BADDATE>>)
  /\ fields[1].end_datetime = None
  /\ fields[1].title = Strip(L_CITY)

\* C18: city and region are the two lines after the deadline-label line, None
\* and None when fewer than two lines follow it or there is no such line; with
\* the deadline value on the line after the label that line is the city.
C18_CityRegion ==
  fields # None =>
    LET i == EndLabelLine
    IN  /\ (i = 0 \/ i + 2 > Len(Lines)) =>
             fields[1].city = None /\ fields[1].region = None
        /\ (i # 0 /\ i + 2 <= Len(Lines)) =>
             /\ fields[1].city = <<Lines[i + 1]>>
             /\ fields[1].region = <<Lines[i + 2]>>
             /\ Lines[i] = END_LABEL => fields[1].city = <<EndValue>>

\* C18 witness: the date after a bare label is the deadline and the city
C18_Witness ==
  /\ fields # None
  /\ block_body = JoinLines(<<L_END, L_DATE, L_CITY>>)
  /\ fields[1].end_datetime = <<(<<ToOrdinal(2026, 11, 6), 0>>)>>
  /\ fields[1].city = <<L_DATE>> /\ fields[1].region = <<Strip(L_CITY)>>
-----------------------------------------------------------------------------
(* Claims about the report of a run                                        *)

\* the positions of the selection whose Tender has a positive verdict
Accepted ==
  {k \in 1..Len(local_items) :
     \E j \in 1..Len(rost_gpt_results) :
       /\ rost_gpt_results[j].code = local_items[k].tender.number
       /\ rost_gpt_results[j].is_match}

\* the m-th smallest element of a set of numbers
NthIn(S, m) == CHOOSE k \in S : Cardinality({x \in S : x < k}) = m - 1

C27_Counters ==
  /\ run_pc \notin {"idle", "loaded"} /\ tenders # <<>> =>
       /\ Len(local_items) = sent_to_gpt
       /\ sent_to_gpt <= MAX_GPT_TENDERS
       /\ sent_to_gpt <= Len(tenders)
       /\ local_found <= Len(tenders)
  /\ stats # None =>
       /\ stats[1].matched_count <= stats[1].gpt_answers
       /\ stats[1].gpt_answers <= stats[1].sent_to_gpt
       /\ stats[1].sent_to_gpt <= Min(MAX_GPT_TENDERS, stats[1].total_tenders)
       /\ stats[1].local_found <= stats[1].total_tenders
       /\ stats[1].sent_to_gpt = Len(local_items)
       /\ stats[1].total_tenders = Len(tenders)

\* a reported run of more than K local matches in which the inequalities
\* between the counters are strict
C27_Witness ==
  /\ stats # None
  /\ 0 < stats[1].matched_count
  /\ stats[1].matched_count < stats[1].gpt_answers
  /\ stats[1].gpt_answers < stats[1].sent_to_gpt
  /\ stats[1].sent_to_gpt = MAX_GPT_TENDERS
  /\ stats[1].sent_to_gpt < stats[1].total_tenders
  /\ stats[1].local_found > MAX_GPT_TENDERS

-----------------------------------------------------------------------------
(* Claims about the settings                                               *)

\* thread t has finished a call of the function named
Finished(t, name) ==
  th_pc[t] = "idle" /\ th_call[t] # None /\ th_call[t][1].name = name

\* C21: whatever config.json holds and whatever setters ran before, a call
\* of get_search_days returns an integer in 1..30 and a call of
\* get_max_pages an integer in 1..10.
C21_GettersInRange ==
  \A t \in Threads :
    /\ Finished(t, "get_search_days") =>
         th_ret[t].status = "returned" /\ th_ret[t].value \in 1..30
    /\ Finished(t, "get_max_pages") =>
         th_ret[t].status = "returned" /\ th_ret[t].value \in 1..10

\* what holds of the getters: a call that returns returns a number of the
\* range, and a call raises only on a document DictUpdate rejects, which no
\* setter has replaced
C21_InRangeOrRaised ==
  \A t \in Threads :
    /\ (Finished(t, "get_search_days") /\ th_ret[t].status = "returned") =>
         th_ret[t].value \in 1..30
    /\ (Finished(t, "get_max_pages") /\ th_ret[t].status = "returned") =>
         th_ret[t].value \in 1..10
    /\ (th_pc[t] = "idle" /\ th_ret[t].status = "raised") =>
         /\ config_json \in {FileJson(JNull), FileJson(JList(<<JNum(1)>>))}
         /\ \A k \in SettingKeys : last_set[k] = None

\* a token that reads as an integer: an optional sign and decimal digits
LooksInteger(w) ==
  LET body == IF w # <<>> /\ w[1] \in {"+", "-"} THEN Tail(w) ELSE w
  IN  body # <<>> /\ AllDigits(body)

\* the number such a token stands for
IntegerOf(w) ==
  IF w[1] = "-" THEN 0 - IntOf(Tail(w)) ELSE IF w[1] = "+" THEN IntOf(Tail(w)) ELSE IntOf(w)

\* the message is not a valid period: no token, a first token that is no
\* integer, or a second token that is no integer
InvalidPeriod(txt) ==
  LET w == SplitWords(txt)
  IN  \/ w = <<>>
      \/ ~LooksInteger(w[1])
      \/ Len(w) >= 2 /\ ~LooksInteger(w[2])

\* what get_max_pages would return on a file
EffectivePages(file) ==
  Returned([name |-> "get_max_pages", arg |-> JNull], _read_config_raw(file).cfg)

\* the stored value of a key, None when the file is no object with the key
StoredIn(file, key) ==
  IF file.kind = "json" /\ file.value.type = "object" /\ key \in DOMAIN file.value.members
  THEN Some(file.value.members[key])
  ELSE None

\* a step of text_router in mode "period"
PeriodStep == awaiting = Some("period") /\ nmsgs' = nmsgs + 1

\* the two halves of C24 for one step
InvalidLeavesAll ==
  InvalidPeriod(router_txt'[1]) =>
    /\ config_json' = config_json
    /\ awaiting' = Some("period")

DaysOnlyUpdates ==
  LET w == SplitWords(router_txt'[1])
  IN  (Len(w) = 1 /\ LooksInteger(w[1])) =>
        /\ StoredIn(config_json', "search_days") = Some(JNum(Clamp(IntegerOf(w[1]), 30)))
        /\ EffectivePages(config_json') = EffectivePages(config_json)
        /\ awaiting' = None

\* C24: in text_router with awaiting mode "period", a message that is empty,
\* whose first token is no integer or whose second token is no integer
\* changes neither the settings file nor the mode; a message of one integer
\* stores it (clamped) as search_days, leaves the effective max_pages as it
\* was and clears the mode.
C24_PeriodInput == [][PeriodStep => (InvalidLeavesAll /\ DaysOnlyUpdates)]_vars

\* what holds of text_router in mode "period": the first half always, the
\* second half on every file _read_config_raw accepts
C24_PeriodInputOnReadableFile ==
  [][PeriodStep =>
       /\ InvalidLeavesAll
       /\ ~_read_config_raw(config_json).raised => DaysOnlyUpdates
       /\ _read_config_raw(config_json).raised =>
            (config_json' = config_json /\ awaiting' = Some("period"))]_vars

\* no thread is inside a call
Quiet == \A t \in Threads : th_pc[t] = "idle"

\* C29: setters that run concurrently in two threads on different keys lose
\* no update: whenever no call is in progress, the settings file holds, for
\* every key, the value of the last setter of that key that returned; and
\* config.json is never a partially written file, so no getter reads one.
C29_NoLostUpdate ==
  /\ Quiet =>
       \A k \in SettingKeys :
         last_set[k] # None => StoredIn(config_json, k) = last_set[k]
  /\ config_json.kind # "partial"
  /\ \A t \in Threads : th_pc[t] \in {"locked", "read", "opened", "dumped", "replaced"} =>
       _lock = Some(t)

\* both threads have run a setter, the second taking the lock while the
\* first was inside its call, and both values are stored
C29_Witness ==
  /\ Quiet /\ contended
  /\ last_set["keywords"] # None /\ last_set["city"] # None
  /\ StoredIn(config_json, "keywords") = Some(JList(<<<<"a">>>>))
  /\ StoredIn(config_json, "city") = Some(JStr(<<"m">>))
  /\ ncalls = 2

=============================================================================
